---- MODULE Spec2Model ----
(***************************************************************************)
(* A model of matchfetch23 (src/index.js): the ancestry tree flattener,    *)
(* the hierarchy reconstruction, the cross-match statistics and the batch  *)
(* enrichment loop of the popup.                                           *)
(*                                                                         *)
(* JavaScript strings are sequences of one-character strings, so that      *)
(* parsing, concatenation and formatting are computed and not assumed.     *)
(* A JavaScript value that may be undefined is a record with a tag t.      *)
(***************************************************************************)
EXTENDS Integers, Sequences, FiniteSets, TLC

VARIABLES
    \* extractNodes (SpecFlatten)
    tree,        \* the population tree: path (sequence of child indices) -> node
    allNodes,    \* the accumulator extractNodes returns
    fphase,      \* "input" while the tree is being supplied, "done" after the call
    \* buildHierarchy (SpecHier)
    nodes,       \* the flat entries passed to buildHierarchy
    hier,        \* what buildHierarchy returned, with the objects it references
    hphase,
    \* calculateMatchStatistics (SpecStats)
    matches,     \* the enriched matches passed to calculateMatchStatistics
    stats,       \* the statistics it returned
    sphase,
    \* the popup: session discovery and batch enrichment (SpecBatch)
    currentProfileId,     \* null or the discovered profile id
    allRelativesData,     \* the relatives list of the service
    enrichedMatchesData,  \* the accumulating result list
    saveDisabled,         \* saveButton.disabled
    progress,             \* the text of #fetchProgress
    relativesStatus,      \* the text of #relativesStatus
    loadpc,               \* where autoFetchProfileAndRelatives is suspended
    handlers,             \* the invocations of the fetchMatches click handler
    \* the haplogroup extraction of extractAncestryDataForMatch (SpecHaplo)
    hapData,       \* the entries of an ok haplogroup response
    hapPair,          \* the pair extracted from them
    xphase,
    \* the table of the exported page of htmlGenerator.js (SpecTable)
    tableData,            \* matchesData embedded in the page
    tbody,                \* the rows of #matchesBody in document order
    tableSearch,          \* the value of #searchInput
    tableCompute,         \* the value of #computeFilter
    tableSort,            \* currentSort
    \* the paginated page of matchviewer.js (SpecPaged)
    matchesData,          \* the matches embedded in the page
    filteredMatches,      \* the matches being paged, by originalIndex
    currentPage,
    searchInput,          \* the values of the filter controls
    computeFilter,
    genderFilter,
    sideFilter,
    regionFilter,
    regionSlider,
    currentSort,
    rendered              \* the matches of the rows of #matchesBody

varsFlatten == <<tree, allNodes, fphase>>
varsHier == <<nodes, hier, hphase>>
varsStats == <<matches, stats, sphase>>
varsBatch == <<currentProfileId, allRelativesData, enrichedMatchesData,
               saveDisabled, progress, relativesStatus, loadpc, handlers>>
varsHaplo == <<hapData, hapPair, xphase>>
varsTable == <<tableData, tbody, tableSearch, tableCompute, tableSort>>
varsPaged == <<matchesData, filteredMatches, currentPage, searchInput,
               computeFilter, genderFilter, sideFilter, regionFilter,
               regionSlider, currentSort, rendered>>
varsPages == <<varsHaplo, varsTable, varsPaged>>
vars == <<tree, allNodes, fphase, nodes, hier, hphase, matches, stats, sphase,
          currentProfileId, allRelativesData, enrichedMatchesData,
          saveDisabled, progress, relativesStatus, loadpc, handlers,
          hapData, hapPair, xphase,
          tableData, tbody, tableSearch, tableCompute, tableSort,
          matchesData, filteredMatches, currentPage, searchInput,
          computeFilter, genderFilter, sideFilter, regionFilter,
          regionSlider, currentSort, rendered>>

----------------------------------------------------------------------------
(* Bounds of the model *)

MaxNodes == 3

MaxEntries == 3

MaxMatches == 4

MaxRelatives == 2

MaxClicks == 2

MaxDistinct == 12

MaxRepeats == 1

----------------------------------------------------------------------------
(* JavaScript values and strings *)

Undef == [t |-> "undefined"]

Str(s) == [t |-> "string", s |-> s]

Null == [t |-> "null"]

\* ToBoolean: objects and non-empty strings are truthy, undefined, null and
\* the empty string are not.
Truthy(v) == v.t = "object" \/ (v.t = "string" /\ v.s # <<>>)

s_root == <<"r", "o", "o", "t">>

Digits == <<"0", "1", "2", "3", "4", "5", "6", "7", "8", "9">>

IsDigit(c) == \E d \in 1..10 : Digits[d] = c

DigitVal(c) == (CHOOSE d \in 1..10 : Digits[d] = c) - 1

RECURSIVE Pow10(_)
Pow10(n) == IF n = 0 THEN 1 ELSE 10 * Pow10(n - 1)

\* The length of the longest run of decimal digits of s that starts at index i.
RECURSIVE DigitRun(_, _)
DigitRun(s, i) ==
    IF i <= Len(s) /\ IsDigit(s[i]) THEN 1 + DigitRun(s, i + 1) ELSE 0

\* The value of the n decimal digits of s that start at index i.
RECURSIVE DigitsValue(_, _, _)
DigitsValue(s, i, n) ==
    IF n = 0 THEN 0
    ELSE DigitsValue(s, i, n - 1) * 10 + DigitVal(s[i + n - 1])

RECURSIVE SkipSpace(_, _)
SkipSpace(s, i) == IF i <= Len(s) /\ s[i] = " " THEN SkipSpace(s, i + 1) ELSE i

NaN == [nan |-> TRUE, neg |-> FALSE, num |-> 0, den |-> 1]

\* parseFloat of a string: leading white space is skipped, then the longest
\* prefix that is a decimal literal (sign, digits, optional fraction) is read;
\* NaN when there is none.  The number is the exact rational (-)num/den.
\* Exponents and "Infinity" are not read: no input of the model holds them.
parseFloatStr(s) ==
    LET i0 == SkipSpace(s, 1)
        signed == i0 <= Len(s) /\ s[i0] \in {"-", "+"}
        neg == signed /\ s[i0] = "-"
        i1 == IF signed THEN i0 + 1 ELSE i0
        ni == DigitRun(s, i1)
        i2 == i1 + ni
        dot == i2 <= Len(s) /\ s[i2] = "."
        nf == IF dot THEN DigitRun(s, i2 + 1) ELSE 0
    IN  IF ni = 0 /\ nf = 0 THEN NaN
        ELSE [nan |-> FALSE, neg |-> neg,
              num |-> DigitsValue(s, i1, ni) * Pow10(nf)
                        + DigitsValue(s, i2 + 1, nf),
              den |-> Pow10(nf)]

\* parseFloat(v): undefined converts to "undefined", which parses to NaN.
parseFloat(v) == IF v.t = "string" THEN parseFloatStr(v.s) ELSE NaN

\* x > 0 for a parsed number: false for NaN, for 0 and for negatives.
GtZero(x) == ~x.nan /\ ~x.neg /\ x.num > 0

----------------------------------------------------------------------------
(* The population tree and extractNodes *)

\* The (id, label, totalPercent) a supplied node carries.
NodeKinds ==
    { [id |-> <<"a">>, label |-> <<"A">>, totalPercent |-> Str(<<"1", "2", ".", "5">>)],
      [id |-> <<"b">>, label |-> <<"B">>, totalPercent |-> Str(<<"7", "x">>)],
      [id |-> s_root, label |-> <<"W">>, totalPercent |-> Str(<<"4", "0", ".", "0", "0">>)],
      [id |-> <<"c">>, label |-> <<"C">>, totalPercent |-> Undef],
      [id |-> <<"c">>, label |-> <<"C">>, totalPercent |-> Str(<<>>)],
      [id |-> <<"c">>, label |-> <<"C">>, totalPercent |-> Str(<<"0", ".", "0">>)],
      [id |-> <<"c">>, label |-> <<"C">>, totalPercent |-> Str(<<"-", "5">>)],
      [id |-> <<"c">>, label |-> <<"C">>, totalPercent |-> Str(<<"a", "b", "c">>)] }

\* node.children is absent (undefined) or an array, here the number of its
\* elements: the child i of the node at path p is the node at path p \o <<i>>.
ChildArray(n) == [t |-> "array", n |-> n]

\* The synthetic root "World" node.
RootNode ==
    [id |-> s_root, label |-> <<"W">>,
     totalPercent |-> Str(<<"1", "0", "0", ".", "0">>),
     color |-> <<"#">>, parent_id |-> <<>>, children |-> Undef]

\* The entry extractNodes pushes for a node.
FlatEntry(node) ==
    [id |-> node.id, label |-> node.label, totalPercent |-> node.totalPercent,
     color |-> node.color, parent_id |-> node.parent_id]

RECURSIVE extractNodes(_, _, _)
RECURSIVE forEachChild(_, _, _, _)

\* The test of extractNodes for pushing a node.
Qualifies(node) ==
    /\ Truthy(node.totalPercent)
    /\ GtZero(parseFloat(node.totalPercent))
    /\ node.id # s_root

\* A variant that stops at a node it does not push.
extractNodes_pruning(t, p, acc) ==
    IF Qualifies(t[p])
    THEN LET pushed == Append(acc, [at |-> p, entry |-> FlatEntry(t[p])])
         IN  IF t[p].children.t = "array"
             THEN forEachChild(t, p, 1, pushed)
             ELSE pushed
    ELSE acc

\* A variant that pushes a node after its children.
extractNodes_postorder(t, p, acc) ==
    LET below == IF t[p].children.t = "array"
                 THEN forEachChild(t, p, 1, acc)
                 ELSE acc
    IN  IF Qualifies(t[p])
        THEN Append(below, [at |-> p, entry |-> FlatEntry(t[p])])
        ELSE below

\* extractNodes(node, allNodes) for the node at path p of tree t.  Each pushed
\* entry is kept with the path of the node it came from (at), which the code
\* does not store: it is what the claims about the traversal speak of.
extractNodes(t, p, acc) ==
    LET pushed == IF Qualifies(t[p])
                  THEN Append(acc, [at |-> p, entry |-> FlatEntry(t[p])])
                  ELSE acc
    IN  IF t[p].children.t = "array"
        THEN forEachChild(t, p, 1, pushed)
        ELSE pushed

\* node.children.forEach(child => extractNodes(child, allNodes)), from child i.
forEachChild(t, p, i, acc) ==
    IF i > t[p].children.n THEN acc
    ELSE forEachChild(t, p, i + 1, extractNodes(t, p \o <<i>>, acc))

InitFlatten ==
    /\ tree = [p \in {<<>>} |-> RootNode]
    /\ allNodes = <<>>
    /\ fphase = "input"

\* The service supplies one more node: a new last child of the node at path p.
\* Its parent_id is the id of that node, as in the service's trees.
SupplyNode ==
    /\ fphase = "input"
    /\ Cardinality(DOMAIN tree) <= MaxNodes
    /\ \E p \in DOMAIN tree, k \in NodeKinds :
         LET n == IF tree[p].children.t = "array" THEN tree[p].children.n ELSE 0
             q == p \o <<n + 1>>
             child == [id |-> k.id, label |-> k.label,
                       totalPercent |-> k.totalPercent, color |-> <<"#">>,
                       parent_id |-> tree[p].id, children |-> Undef]
         IN  tree' = [x \in DOMAIN tree \cup {q} |->
                        IF x = q THEN child
                        ELSE IF x = p
                             THEN [tree[p] EXCEPT !.children = ChildArray(n + 1)]
                             ELSE tree[x]]
    /\ UNCHANGED <<allNodes, fphase>>

\* const allNodes = extractNodes(matchingTree.population_tree)
CallExtractNodes ==
    /\ fphase = "input"
    /\ allNodes' = extractNodes(tree, <<>>, <<>>)
    /\ fphase' = "done"
    /\ UNCHANGED tree

NextFlatten ==
    \/ SupplyNode /\ UNCHANGED <<varsHier, varsStats, varsBatch, varsPages>>
    \/ CallExtractNodes /\ UNCHANGED <<varsHier, varsStats, varsBatch, varsPages>>

IdleHier ==
    /\ nodes = <<>>
    /\ hier = [result |-> <<>>, nodeMap |-> <<>>]
    /\ hphase = "idle"

IdleStats == matches = <<>> /\ stats = <<>> /\ sphase = "idle"

IdleBatch ==
    /\ currentProfileId = Null
    /\ allRelativesData = <<>>
    /\ enrichedMatchesData = <<>>
    /\ saveDisabled = FALSE
    /\ progress = <<>>
    /\ relativesStatus = <<>>
    /\ loadpc = "idle"
    /\ handlers = <<>>

IdleHaplo == hapData = <<>> /\ hapPair = <<>> /\ xphase = "idle"

IdleTable ==
    /\ tableData = <<>>
    /\ tbody = <<>>
    /\ tableSearch = <<>>
    /\ tableCompute = "all"
    /\ tableSort = <<>>

IdlePaged ==
    /\ matchesData = <<>>
    /\ filteredMatches = <<>>
    /\ currentPage = 1
    /\ searchInput = <<>>
    /\ computeFilter = "latest"
    /\ genderFilter = "all"
    /\ sideFilter = "all"
    /\ regionFilter = <<>>
    /\ regionSlider = 0
    /\ currentSort = <<>>
    /\ rendered = <<>>

IdlePages == IdleHaplo /\ IdleTable /\ IdlePaged

StartFlatten == InitFlatten /\ IdleHier /\ IdleStats /\ IdleBatch /\ IdlePages

SpecFlatten == StartFlatten /\ [][NextFlatten]_vars

IsProperPrefix(p, q) == Len(p) < Len(q) /\ SubSeq(q, 1, Len(p)) = p

EmittedAt(p) == \E i \in 1..Len(allNodes) : allNodes[i].at = p

\* C1: extractNodes emits a node if and only if its totalPercent is present and
\* truthy, parses to a number > 0 and its id is not "root", whatever its depth
\* and whether or not its ancestors were emitted; it is emitted once, with the
\* node's own fields.
C1_EmitIffQualifies ==
    fphase = "done" =>
      /\ \A p \in DOMAIN tree :
           EmittedAt(p) <=>
             /\ tree[p].totalPercent.t = "string"
             /\ tree[p].totalPercent.s # <<>>
             /\ LET x == parseFloat(tree[p].totalPercent)
                IN  ~x.nan /\ ~x.neg /\ x.num > 0
             /\ tree[p].id # s_root
      /\ \A i, j \in 1..Len(allNodes) :
           allNodes[i].at = allNodes[j].at => i = j
      /\ \A i \in 1..Len(allNodes) :
           /\ allNodes[i].at \in DOMAIN tree
           /\ allNodes[i].entry.id = tree[allNodes[i].at].id
           /\ allNodes[i].entry.totalPercent = tree[allNodes[i].at].totalPercent

\* A node two levels below the root is emitted although its parent was not,
\* the root is not emitted, and a node with a zero percentage is not emitted.
C1_Witness ==
    /\ fphase = "done"
    /\ ~EmittedAt(<<>>)
    /\ \E i \in 1..Len(allNodes) :
         LET p == allNodes[i].at
         IN  Len(p) = 2 /\ ~EmittedAt(SubSeq(p, 1, 1))
    /\ \E p \in DOMAIN tree :
         /\ tree[p].totalPercent = Str(<<"0", ".", "0">>)
         /\ ~EmittedAt(p)

\* C2: the emitted sequence is in pre-order: an emitted ancestor comes before
\* an emitted descendant, and emitted siblings come in the order of the
\* children array.
C2_PreOrder ==
    fphase = "done" =>
      \A i, j \in 1..Len(allNodes) :
        LET p == allNodes[i].at
            q == allNodes[j].at
        IN  /\ IsProperPrefix(p, q) => i < j
            /\ ( /\ Len(p) = Len(q) /\ Len(p) > 0
                 /\ SubSeq(p, 1, Len(p) - 1) = SubSeq(q, 1, Len(q) - 1)
                 /\ p[Len(p)] < q[Len(q)] ) => i < j

\* An emitted parent with an emitted child, and two emitted siblings.
C2_Witness ==
    /\ fphase = "done"
    /\ \E i, j \in 1..Len(allNodes) :
         IsProperPrefix(allNodes[i].at, allNodes[j].at)
    /\ \E i, j \in 1..Len(allNodes) :
         /\ i # j
         /\ Len(allNodes[i].at) = 1
         /\ Len(allNodes[j].at) = 1

----------------------------------------------------------------------------
(* JavaScript objects and buildHierarchy *)

\* A plain object with string keys: the sequence of its [k, v] properties in
\* insertion order, which is the order Object.keys and Object.values give.
\* (No key of the model is an integer index or a name Object.prototype has.)
ObjHas(o, k) == \E i \in 1..Len(o) : o[i].k = k

ObjGet(o, k) == o[CHOOSE i \in 1..Len(o) : o[i].k = k].v

\* o[k] = v: an existing property keeps its place.
ObjSet(o, k, v) ==
    IF ObjHas(o, k)
    THEN [i \in 1..Len(o) |-> IF o[i].k = k THEN [k |-> k, v |-> v] ELSE o[i]]
    ELSE Append(o, [k |-> k, v |-> v])

Obj(o) == [t |-> "object", o |-> o]

\* A reference to the object nodeMap holds under id: hierarchyNode.
Ref(id) == [ref |-> id]

\* { ...node, regions: {} }
HierarchyNode(node) ==
    [id |-> node.id, label |-> node.label, totalPercent |-> node.totalPercent,
     color |-> node.color, parent_id |-> node.parent_id, regions |-> Obj(<<>>)]

RECURSIVE IndexNodes_keepFirst(_, _, _)
\* A variant of the first pass that keeps the first entry of an id.
IndexNodes_keepFirst(ns, i, nodeMap) ==
    IF i > Len(ns) THEN nodeMap
    ELSE IndexNodes_keepFirst(ns, i + 1,
            IF ObjHas(nodeMap, ns[i].id) THEN nodeMap
            ELSE ObjSet(nodeMap, ns[i].id, HierarchyNode(ns[i])))

RECURSIVE IndexNodes(_, _, _)
\* nodes.forEach(node => { nodeMap[node.id] = { ...node, regions: {} }; }),
\* from entry i.
IndexNodes(ns, i, nodeMap) ==
    IF i > Len(ns) THEN nodeMap
    ELSE IndexNodes(ns, i + 1, ObjSet(nodeMap, ns[i].id, HierarchyNode(ns[i])))

\* The body of the second forEach for one entry, on the state [nodeMap, result].
AttachNode(node, st) ==
    LET hierarchyNode == Ref(node.id)
    IN  IF node.parent_id = s_root
        THEN [st EXCEPT !.result = ObjSet(st.result, node.label, <<hierarchyNode>>)]
        ELSE IF ObjHas(st.nodeMap, node.parent_id)
        THEN LET parent == ObjGet(st.nodeMap, node.parent_id)
                 regs == parent.regions.o
                 old == IF ObjHas(regs, node.label)
                        THEN ObjGet(regs, node.label)
                        ELSE <<>>
                 parent2 == [parent EXCEPT !.regions =
                               Obj(ObjSet(regs, node.label, Append(old, hierarchyNode)))]
             IN  [st EXCEPT !.nodeMap = ObjSet(st.nodeMap, node.parent_id, parent2)]
        ELSE st

RECURSIVE AttachNodes(_, _, _)
AttachNodes(ns, i, st) ==
    IF i > Len(ns) THEN st
    ELSE AttachNodes(ns, i + 1, AttachNode(ns[i], st))

\* Object.values(nodeMap).forEach(node => { if (no keys) delete node.regions; })
CleanUp(nodeMap) ==
    [i \in 1..Len(nodeMap) |->
       IF nodeMap[i].v.regions.o = <<>>
       THEN [nodeMap[i] EXCEPT !.v.regions = Undef]
       ELSE nodeMap[i]]

\* buildHierarchy(nodes): the returned result, with the objects (nodeMap) that
\* the references in result and in the regions of the nodes point to.
buildHierarchy(ns) ==
    LET indexed == IndexNodes(ns, 1, <<>>)
        st == AttachNodes(ns, 1, [nodeMap |-> indexed, result |-> <<>>])
    IN  [result |-> st.result, nodeMap |-> CleanUp(st.nodeMap)]

Pct40 == Str(<<"4", "0", ".", "0", "0">>)

\* The flat entries the model passes to buildHierarchy.
EntryPool ==
    { [id |-> i, label |-> l, totalPercent |-> Pct40, color |-> <<"#">>,
       parent_id |-> q] :
        i \in {<<"a">>, <<"b">>}, l \in {<<"X">>, <<"Y">>},
        q \in {s_root, <<"a">>, <<"z">>} }

InitHier ==
    /\ nodes = <<>>
    /\ hier = [result |-> <<>>, nodeMap |-> <<>>]
    /\ hphase = "input"

\* One more flat entry is passed in.
SupplyEntry ==
    /\ hphase = "input"
    /\ Len(nodes) < MaxEntries
    /\ \E e \in EntryPool : nodes' = Append(nodes, e)
    /\ UNCHANGED <<hier, hphase>>

\* const regions = buildHierarchy(allNodes)
CallBuildHierarchy ==
    /\ hphase = "input"
    /\ hier' = buildHierarchy(nodes)
    /\ hphase' = "done"
    /\ UNCHANGED nodes

NextHier ==
    \/ SupplyEntry /\ UNCHANGED <<varsFlatten, varsStats, varsBatch, varsPages>>
    \/ CallBuildHierarchy /\ UNCHANGED <<varsFlatten, varsStats, varsBatch, varsPages>>

IdleFlatten == tree = <<>> /\ allNodes = <<>> /\ fphase = "idle"

StartHier == InitHier /\ IdleFlatten /\ IdleStats /\ IdleBatch /\ IdlePages

SpecHier == StartHier /\ [][NextHier]_vars

\* The places of a hierarchy: one per element of a sequence stored under a
\* label, in result (top) or in the regions of the node indexed under parent.
TopSlots(h) ==
    UNION { { [top |-> TRUE, parent |-> <<>>, label |-> h.result[i].k,
               idx |-> j, id |-> h.result[i].v[j].ref] :
                j \in 1..Len(h.result[i].v) } : i \in 1..Len(h.result) }

RegionsOf(n) == IF n.regions.t = "object" THEN n.regions.o ELSE <<>>

ChildSlots(h) ==
    UNION { UNION { { [top |-> FALSE, parent |-> h.nodeMap[m].k,
                       label |-> RegionsOf(h.nodeMap[m].v)[i].k, idx |-> j,
                       id |-> RegionsOf(h.nodeMap[m].v)[i].v[j].ref] :
                        j \in 1..Len(RegionsOf(h.nodeMap[m].v)[i].v) } :
                    i \in 1..Len(RegionsOf(h.nodeMap[m].v)) } :
            m \in 1..Len(h.nodeMap) }

AllSlots(h) == TopSlots(h) \cup ChildSlots(h)

\* The ids of the nodes that can be reached from the returned result.
RECURSIVE ReachFrom(_, _)
ReachFrom(h, S) ==
    LET S2 == S \cup { s.id : s \in { c \in ChildSlots(h) : c.parent \in S } }
    IN  IF S2 = S THEN S ELSE ReachFrom(h, S2)

Reach(h) == ReachFrom(h, { s.id : s \in TopSlots(h) })

\* The places of the returned hierarchy: those reached from result.
ReturnedSlots(h) ==
    TopSlots(h) \cup { c \in ChildSlots(h) : c.parent \in Reach(h) }

DistinctIds(ns) == \A i, j \in 1..Len(ns) : ns[i].id = ns[j].id => i = j

Resolves(ns, q) == \E j \in 1..Len(ns) : ns[j].id = q

\* The references to the entries of ns, in order, that have parent_id q and label l.
RECURSIVE RefsOf(_, _, _)
RefsOf(ns, q, l) ==
    IF ns = <<>> THEN <<>>
    ELSE LET rest == RefsOf(Tail(ns), q, l)
         IN  IF Head(ns).parent_id = q /\ Head(ns).label = l
             THEN <<Ref(Head(ns).id)>> \o rest
             ELSE rest

\* C3: every flat entry has exactly one place in the hierarchy: in result under
\* its label when its parent_id is "root", otherwise in the regions, under its
\* label, of the entry its parent_id resolves to; an entry whose parent_id
\* resolves to no indexed id has no place.  Stated for entries with pairwise
\* distinct ids, where the node of an entry is the node with its id; a place
\* is counted wherever it is, also under a node that is itself dropped.
C3_RoundTrip ==
    (hphase = "done" /\ DistinctIds(nodes)) =>
      \A i \in 1..Len(nodes) :
        LET e == nodes[i]
            places == { s \in AllSlots(hier) : s.id = e.id }
        IN  IF e.parent_id = s_root
            THEN /\ Cardinality(places) = 1
                 /\ \A s \in places : s.top /\ s.label = e.label
            ELSE IF Resolves(nodes, e.parent_id)
            THEN /\ Cardinality(places) = 1
                 /\ \A s \in places :
                      ~s.top /\ s.parent = e.parent_id /\ s.label = e.label
            ELSE places = {}

\* C4: each label maps to the sequence of all entries that carry that label
\* under the same parent, in input order, for parent_id "root" as for an
\* indexed parent.  Stated for entries with pairwise distinct ids.
C4_AllKeptInOrder ==
    (hphase = "done" /\ DistinctIds(nodes)) =>
      \A i \in 1..Len(nodes) :
        LET e == nodes[i]
            want == RefsOf(nodes, e.parent_id, e.label)
        IN  IF e.parent_id = s_root
            THEN ObjHas(hier.result, e.label)
                   /\ ObjGet(hier.result, e.label) = want
            ELSE Resolves(nodes, e.parent_id) =>
                   LET regs == RegionsOf(ObjGet(hier.nodeMap, e.parent_id))
                   IN  ObjHas(regs, e.label) /\ ObjGet(regs, e.label) = want

Occurrences(h, id) == { s \in ReturnedSlots(h) : s.id = id }

Colliding(ns, id) == { i \in 1..Len(ns) : ns[i].id = id }

Perms(n) == { f \in [1..n -> 1..n] : \A a, b \in 1..n : f[a] = f[b] => a = b }

TopLevelSet(h) == { s.id : s \in TopSlots(h) }

Attachments(h) == { <<s.parent, s.id>> : s \in ChildSlots(h) }

\* C6: for entries with pairwise distinct ids, every permutation of the input
\* gives the same set of top-level entries and the same set of parent-to-child
\* attachments.
C6_OrderIndependent ==
    (hphase = "done" /\ DistinctIds(nodes)) =>
      \A f \in Perms(Len(nodes)) :
        LET h2 == buildHierarchy([i \in 1..Len(nodes) |-> nodes[f[i]]])
        IN  /\ TopLevelSet(h2) = TopLevelSet(hier)
            /\ Attachments(h2) = Attachments(hier)

----------------------------------------------------------------------------
(* calculateMatchStatistics *)

TopN == 10

\* The decimal digits of a natural number.
RECURSIVE NatToStr(_)
NatToStr(n) ==
    IF n < 10 THEN <<Digits[n + 1]>>
    ELSE NatToStr(n \div 10) \o <<Digits[(n % 10) + 1]>>

\* The last f decimal digits of n, zero padded.
RECURSIVE FracDigits(_, _)
FracDigits(n, f) ==
    IF f = 0 THEN <<>>
    ELSE FracDigits(n \div 10, f - 1) \o <<Digits[(n % 10) + 1]>>

\* (num / den).toFixed(f) for num >= 0, den > 0 and f >= 1: the nearest
\* multiple of 10^-f, the larger one when two are equally near.
\* (The quotient is taken exactly; a double differs from it only in the
\* choice between two equally near multiples.)
ToFixed(num, den, f) ==
    LET n == (2 * num * Pow10(f) + den) \div (2 * den)
    IN  NatToStr(n \div Pow10(f)) \o <<".">> \o FracDigits(n % Pow10(f), f)

\* String.prototype.trim, for the white space of the model (the space).
RECURSIVE TrimEnd(_)
TrimEnd(s) ==
    IF s # <<>> /\ s[Len(s)] = " " THEN TrimEnd(SubSeq(s, 1, Len(s) - 1)) ELSE s

Trim(s) == LET i == SkipSpace(s, 1) IN TrimEnd(SubSeq(s, i, Len(s)))

\* A tally that records a key without counting its occurrences.
Increment_once(tally, k) == ObjSet(tally, k, 1)

\* tally[k] = (tally[k] || 0) + 1
Increment(tally, k) ==
    ObjSet(tally, k, (IF ObjHas(tally, k) THEN ObjGet(tally, k) ELSE 0) + 1)

\* `${region.id}:${region.label}:${region.parent_id}`
RegionKey(region) ==
    region.id \o <<":">> \o region.label \o <<":">> \o region.parent_id

\* The body of regionArray.forEach for one region, without the recursion.
CollectRegion(region, regionData) ==
    IF Truthy(region.totalPercent)
    THEN LET percent == parseFloat(region.totalPercent)
             key == RegionKey(region)
             entry == IF ObjHas(regionData, key)
                      THEN ObjGet(regionData, key)
                      ELSE [id |-> region.id, label |-> region.label,
                            parent_id |-> region.parent_id, values |-> <<>>]
         IN  ObjSet(regionData, key,
                    [entry EXCEPT !.values = Append(entry.values, percent)])
    ELSE regionData

RECURSIVE collectRegionData(_, _, _)
RECURSIVE collectLabels(_, _, _, _)
RECURSIVE collectArray(_, _, _, _)

\* collectRegionData(regions, regionData); heap holds the objects that the
\* references in regions point to.
collectRegionData(heap, regions, regionData) ==
    collectLabels(heap, regions, 1, regionData)

\* Object.keys(regions).forEach(...), from key i.
collectLabels(heap, regions, i, regionData) ==
    IF i > Len(regions) THEN regionData
    ELSE collectLabels(heap, regions, i + 1,
                       collectArray(heap, regions[i].v, 1, regionData))

\* regionArray.forEach(region => ...), from element j.
collectArray(heap, regionArray, j, regionData) ==
    IF j > Len(regionArray) THEN regionData
    ELSE LET region == ObjGet(heap, regionArray[j].ref)
             own == CollectRegion(region, regionData)
             nested == IF Truthy(region.regions)
                       THEN collectRegionData(heap, region.regions.o, own)
                       ELSE own
         IN  collectArray(heap, regionArray, j + 1, nested)

\* The sum of parsed numbers as a fraction [num, den], den a power of ten.
RECURSIVE SumValues(_)
SumValues(values) ==
    IF values = <<>> THEN [num |-> 0, den |-> 1]
    ELSE LET r == SumValues(Tail(values))
             v == Head(values)
             d == IF v.den > r.den THEN v.den ELSE r.den
         IN  [num |-> v.num * (d \div v.den) + r.num * (d \div r.den), den |-> d]

\* A variant that divides by the number of observed values.
Average_overObserved(values, totalMatches) ==
    LET sum == SumValues(values)
    IN  ToFixed(sum.num, sum.den * Len(values), 2)

\* (region.values.reduce((a, b) => a + b, 0) / totalMatches).toFixed(2)
Average(values, totalMatches) ==
    LET sum == SumValues(values)
    IN  ToFixed(sum.num, sum.den * totalMatches, 2)

\* Object.values(regionData).map(region => ({ id, label, parent_id, average }))
RegionsArray(regionData, totalMatches) ==
    [i \in 1..Len(regionData) |->
       [id |-> regionData[i].v.id, label |-> regionData[i].v.label,
        parent_id |-> regionData[i].v.parent_id,
        average |-> Average(regionData[i].v.values, totalMatches)]]

\* regionsArray.forEach(region => { nodeMap[region.id] = {...region, children: {}} })
RECURSIVE IndexRegions(_, _, _)
IndexRegions(rs, i, nodeMap) ==
    IF i > Len(rs) THEN nodeMap
    ELSE IndexRegions(rs, i + 1,
            ObjSet(nodeMap, rs[i].id,
                   [id |-> rs[i].id, label |-> rs[i].label,
                    parent_id |-> rs[i].parent_id, average |-> rs[i].average,
                    children |-> <<>>]))

\* The body of the second forEach of buildAverageRegionHierarchy.
AttachRegion(region, st) ==
    LET node == Ref(region.id)
    IN  IF region.parent_id = s_root
        THEN LET old == IF ObjHas(st.result, region.label)
                        THEN ObjGet(st.result, region.label)
                        ELSE <<>>
             IN  [st EXCEPT !.result =
                    ObjSet(st.result, region.label, Append(old, node))]
        ELSE IF ObjHas(st.nodeMap, region.parent_id)
        THEN LET parent == ObjGet(st.nodeMap, region.parent_id)
                 old == IF ObjHas(parent.children, region.label)
                        THEN ObjGet(parent.children, region.label)
                        ELSE <<>>
                 parent2 == [parent EXCEPT !.children =
                               ObjSet(parent.children, region.label, Append(old, node))]
             IN  [st EXCEPT !.nodeMap = ObjSet(st.nodeMap, region.parent_id, parent2)]
        ELSE st

RECURSIVE AttachRegions(_, _, _)
AttachRegions(rs, i, st) ==
    IF i > Len(rs) THEN st
    ELSE AttachRegions(rs, i + 1, AttachRegion(rs[i], st))

\* buildAverageRegionHierarchy(regionData, totalMatches): the returned result
\* with the objects (nodeMap) its references point to.
buildAverageRegionHierarchy(regionData, totalMatches) ==
    LET regionsArray == RegionsArray(regionData, totalMatches)
        indexed == IndexRegions(regionsArray, 1, <<>>)
    IN  AttachRegions(regionsArray, 1, [nodeMap |-> indexed, result |-> <<>>])

\* A variant that counts every match with haplogroups into matchesWithYDNA.
TallyMatch_countAll(match, acc) ==
    IF Truthy(match.ancestry) /\ Truthy(match.ancestry.haplogroups)
    THEN LET ydna == match.ancestry.haplogroups.ydna
         IN  IF Truthy(ydna) /\ Trim(ydna.s) # <<>>
             THEN [acc EXCEPT !.ydna = Increment(acc.ydna, ydna.s),
                              !.matchesWithYDNA = acc.matchesWithYDNA + 1]
             ELSE [acc EXCEPT !.matchesWithYDNA = acc.matchesWithYDNA + 1]
    ELSE acc

\* The haplogroup part of the body of matches.forEach, on the accumulator
\* [ydna, mtdna, matchesWithYDNA, regionData].
TallyMatch(match, acc) ==
    IF Truthy(match.ancestry) /\ Truthy(match.ancestry.haplogroups)
    THEN LET ydna == match.ancestry.haplogroups.ydna
             mtdna == match.ancestry.haplogroups.mtdna
             a1 == IF Truthy(ydna) /\ Trim(ydna.s) # <<>>
                   THEN [acc EXCEPT !.ydna = Increment(acc.ydna, ydna.s),
                                    !.matchesWithYDNA = acc.matchesWithYDNA + 1]
                   ELSE acc
         IN  IF Truthy(mtdna) /\ Trim(mtdna.s) # <<>>
             THEN [a1 EXCEPT !.mtdna = Increment(a1.mtdna, mtdna.s)]
             ELSE a1
    ELSE acc

\* The region part of the body of matches.forEach.  (ancestry.regions is the
\* object buildHierarchy returned, which is truthy also when it is empty.)
CollectMatch(match, acc) ==
    IF Truthy(match.ancestry)
    THEN [acc EXCEPT !.regionData =
            collectRegionData(match.ancestry.regions.nodeMap,
                              match.ancestry.regions.result, acc.regionData)]
    ELSE acc

\* The body of matches.forEach applied to the matches lo..hi in order. The
\* range is halved, and the accumulator of the first half is compared before
\* the second half is entered, so that it is a value by then and long lists
\* are evaluated without deep nesting.
RECURSIVE ForEachRange(_, _, _, _)
ForEachRange(ms, lo, hi, acc) ==
    IF lo > hi THEN acc
    ELSE IF lo = hi THEN CollectMatch(ms[lo], TallyMatch(ms[lo], acc))
    ELSE LET mid == (lo + hi) \div 2
             first == ForEachRange(ms, lo, mid, acc)
         IN  IF first = acc THEN ForEachRange(ms, mid + 1, hi, acc)
             ELSE ForEachRange(ms, mid + 1, hi, first)

\* matches.forEach from the i-th match on
ForEachMatch(ms, i, acc) == ForEachRange(ms, i, Len(ms), acc)

\* A sort by descending count that is not stable: of two entries of equal
\* count the later one comes first.
RECURSIVE SortByCountDesc_unstable(_)
SortByCountDesc_unstable(es) ==
    IF es = <<>> THEN <<>>
    ELSE LET sorted == SortByCountDesc_unstable(SubSeq(es, 1, Len(es) - 1))
             e == es[Len(es)]
             n == Cardinality({ i \in 1..Len(sorted) : sorted[i].v > e.v })
         IN  SubSeq(sorted, 1, n) \o <<e>> \o SubSeq(sorted, n + 1, Len(sorted))

\* Array.prototype.sort with (a, b) => b.count - a.count: stable, so entries
\* of equal count keep their order.
RECURSIVE SortByCountDesc(_)
SortByCountDesc(es) ==
    IF es = <<>> THEN <<>>
    ELSE LET sorted == SortByCountDesc(SubSeq(es, 1, Len(es) - 1))
             e == es[Len(es)]
             n == Cardinality({ i \in 1..Len(sorted) : sorted[i].v >= e.v })
         IN  SubSeq(sorted, 1, n) \o <<e>> \o SubSeq(sorted, n + 1, Len(sorted))

\* slice(0, 10)
Slice10(es) == SubSeq(es, 1, IF Len(es) < TopN THEN Len(es) ELSE TopN)

\* The percentage without the test of the denominator: a division by zero
\* gives NaN or Infinity, which toFixed prints by name.
YdnaPercentage_unguarded(count, matchesWithYDNA) ==
    IF matchesWithYDNA = 0
    THEN (IF count = 0 THEN <<"N", "a", "N">>
          ELSE <<"I", "n", "f", "i", "n", "i", "t", "y">>)
    ELSE ToFixed(count * 100, matchesWithYDNA, 1)

\* matchesWithYDNA > 0 ? ((count / matchesWithYDNA) * 100).toFixed(1) : '0.0'
YdnaPercentage(count, matchesWithYDNA) ==
    IF matchesWithYDNA > 0
    THEN ToFixed(count * 100, matchesWithYDNA, 1)
    ELSE <<"0", ".", "0">>

\* ((count / matches.length) * 100).toFixed(1)
MtdnaPercentage(count, total) == ToFixed(count * 100, total, 1)

\* A variant that takes the mtDNA percentages over the matches with Y-DNA, as
\* the Y-DNA percentages are.
calculateMatchStatistics_mtdnaOverYdna(ms) ==
    LET acc == ForEachMatch(ms, 1, [ydna |-> <<>>, mtdna |-> <<>>,
                                    matchesWithYDNA |-> 0, regionData |-> <<>>])
        topY == Slice10(SortByCountDesc(acc.ydna))
        topMt == Slice10(SortByCountDesc(acc.mtdna))
    IN  [totalMatches |-> Len(ms),
         regionData |-> acc.regionData,
         matchesWithYDNA |-> acc.matchesWithYDNA,
         averageRegions |-> buildAverageRegionHierarchy(acc.regionData, Len(ms)),
         haplogroups |-> [ydna |-> acc.ydna, mtdna |-> acc.mtdna],
         mostCommonYDNA |->
           [i \in 1..Len(topY) |->
              [haplogroup |-> topY[i].k, count |-> topY[i].v,
               percentage |-> YdnaPercentage(topY[i].v, acc.matchesWithYDNA)]],
         mostCommonMtDNA |->
           [i \in 1..Len(topMt) |->
              [haplogroup |-> topMt[i].k, count |-> topMt[i].v,
               percentage |-> YdnaPercentage(topMt[i].v, acc.matchesWithYDNA)]]]

\* calculateMatchStatistics(matches): the returned stats, and with them the
\* locals regionData and matchesWithYDNA as they are when the function
\* returns.
calculateMatchStatistics(ms) ==
    LET acc == ForEachMatch(ms, 1, [ydna |-> <<>>, mtdna |-> <<>>,
                                    matchesWithYDNA |-> 0, regionData |-> <<>>])
        topY == Slice10(SortByCountDesc(acc.ydna))
        topMt == Slice10(SortByCountDesc(acc.mtdna))
    IN  [totalMatches |-> Len(ms),
         regionData |-> acc.regionData,
         matchesWithYDNA |-> acc.matchesWithYDNA,
         averageRegions |-> buildAverageRegionHierarchy(acc.regionData, Len(ms)),
         haplogroups |-> [ydna |-> acc.ydna, mtdna |-> acc.mtdna],
         mostCommonYDNA |->
           [i \in 1..Len(topY) |->
              [haplogroup |-> topY[i].k, count |-> topY[i].v,
               percentage |-> YdnaPercentage(topY[i].v, acc.matchesWithYDNA)]],
         mostCommonMtDNA |->
           [i \in 1..Len(topMt) |->
              [haplogroup |-> topMt[i].k, count |-> topMt[i].v,
               percentage |-> MtdnaPercentage(topMt[i].v, Len(ms))]]]

\* A flat entry with the given id, label, totalPercent and parent_id.
Entry(id, label, pct, parent) ==
    [id |-> id, label |-> label, totalPercent |-> Str(pct), color |-> <<"#">>,
     parent_id |-> parent]

s_eu == <<"e", "u">>

\* The regions of the matches of the model, each built by buildHierarchy.
RegionsEurope40 ==
    buildHierarchy(<<Entry(s_eu, <<"E", "u", "r">>, <<"4", "0", ".", "0", "0">>, s_root),
                     Entry(<<"b", "r">>, <<"B", "r", "i">>, <<"2", "5", ".", "5", "0">>, s_eu)>>)

RegionsEurope60 ==
    buildHierarchy(<<Entry(s_eu, <<"E", "u", "r">>, <<"6", "0", ".", "0", "0">>, s_root)>>)

RegionsAsia ==
    buildHierarchy(<<Entry(<<"a", "s">>, <<"A", "s", "i">>, <<"1", "2", ".", "5">>, s_root)>>)

RegionsNone == buildHierarchy(<<>>)

Haplogroups(ydna, mtdna) == [t |-> "object", ydna |-> ydna, mtdna |-> mtdna]

Ancestry(latest, haplogroups, regions) ==
    [t |-> "object", using_latest_compute |-> latest,
     haplogroups |-> haplogroups, regions |-> regions]

\* An enriched match: of the fields copied from the relative only the profile
\* id is kept; ancestry and ancestry_error are undefined when absent.
EnrichedMatch(id, ancestry, err) ==
    [relative_profile_id |-> id, ancestry |-> ancestry, ancestry_error |-> err]

s_R1b == <<"R", "1", "b">>

\* The enriched matches the model passes to calculateMatchStatistics.
MatchPool ==
    { EnrichedMatch(<<"1">>, Ancestry(TRUE, Haplogroups(Str(s_R1b), Str(<<"H">>)), RegionsEurope40), Undef),
      EnrichedMatch(<<"2">>, Ancestry(TRUE, Haplogroups(Str(<<"I", "1">>), Str(<<"H">>)), RegionsEurope60), Undef),
      EnrichedMatch(<<"3">>, Ancestry(TRUE, Haplogroups(Str(<<>>), Str(<<"K">>)), RegionsAsia), Undef),
      EnrichedMatch(<<"4">>, Undef, Str(<<"e", "r", "r">>)),
      EnrichedMatch(<<"5">>, Ancestry(TRUE, Null, RegionsEurope40), Undef),
      EnrichedMatch(<<"6">>, Ancestry(TRUE, Haplogroups(Str(<<" ">>), Undef), RegionsNone), Undef),
      EnrichedMatch(<<"7">>, Null, Undef) }

NoStats ==
    [totalMatches |-> 0, regionData |-> <<>>, matchesWithYDNA |-> 0,
     averageRegions |-> [nodeMap |-> <<>>, result |-> <<>>],
     haplogroups |-> [ydna |-> <<>>, mtdna |-> <<>>],
     mostCommonYDNA |-> <<>>, mostCommonMtDNA |-> <<>>]

InitStats ==
    /\ matches = <<>>
    /\ stats = NoStats
    /\ sphase = "input"

\* One more enriched match is in the sequence passed in.
SupplyMatch ==
    /\ sphase = "input"
    /\ Len(matches) < MaxMatches
    /\ \E m \in MatchPool : matches' = Append(matches, m)
    /\ UNCHANGED <<stats, sphase>>

CallCalculateMatchStatistics ==
    /\ sphase = "input"
    /\ stats' = calculateMatchStatistics(matches)
    /\ sphase' = "done"
    /\ UNCHANGED matches

NextStats ==
    \/ SupplyMatch /\ UNCHANGED <<varsFlatten, varsHier, varsBatch, varsPages>>
    \/ CallCalculateMatchStatistics /\ UNCHANGED <<varsFlatten, varsHier, varsBatch, varsPages>>

StartStats == InitStats /\ IdleFlatten /\ IdleHier /\ IdleBatch /\ IdlePages

SpecStats == StartStats /\ [][NextStats]_vars

\* Matches whose region ids, labels and parent ids contain the separator of
\* the regionData key.
s_a == <<"a">>

s_ab == <<"a", ":", "b">>

s_c == <<"c">>

s_bc == <<"b", ":", "c">>

s_croot == <<"c", ":">> \o s_root

ColonMatch(id, entries) ==
    EnrichedMatch(id, Ancestry(TRUE, Null, buildHierarchy(entries)), Undef)

ColonMatchPool ==
    { ColonMatch(<<"1">>, <<Entry(s_ab, s_c, <<"1", "0", ".", "0">>, s_root)>>),
      ColonMatch(<<"2">>, <<Entry(s_a, s_bc, <<"2", "0", ".", "0">>, s_root)>>),
      ColonMatch(<<"3">>, <<Entry(s_croot, s_c, <<"3", "0", ".", "0">>, s_root),
                            Entry(s_a, <<"b">>, <<"5", ".", "5">>, s_croot)>>),
      ColonMatch(<<"4">>, <<Entry(s_a, s_c, <<"4", "0", ".", "0">>, s_root)>>) }

SupplyColonMatch ==
    /\ sphase = "input"
    /\ Len(matches) < MaxMatches
    /\ \E m \in ColonMatchPool : matches' = Append(matches, m)
    /\ UNCHANGED <<stats, sphase>>

NextCollect ==
    \/ SupplyColonMatch /\ UNCHANGED <<varsFlatten, varsHier, varsBatch, varsPages>>
    \/ CallCalculateMatchStatistics /\ UNCHANGED <<varsFlatten, varsHier, varsBatch, varsPages>>

\* calculateMatchStatistics on matches with such regions.
SpecCollect == StartStats /\ [][NextCollect]_vars

Abs(x) == IF x < 0 THEN -x ELSE x

\* The match has a Y-DNA value that is not empty after trimming.
HasYdna(m) ==
    /\ m.ancestry.t = "object"
    /\ m.ancestry.haplogroups.t = "object"
    /\ m.ancestry.haplogroups.ydna.t = "string"
    /\ \E i \in 1..Len(m.ancestry.haplogroups.ydna.s) :
         m.ancestry.haplogroups.ydna.s[i] # " "

WithYdna == { i \in 1..Len(matches) : HasYdna(matches[i]) }

\* C7: each listed Y-DNA haplogroup has the number of matches carrying it as
\* count, and as percentage count / (number of matches whose Y-DNA is not
\* empty after trimming) x 100 to one decimal; matches with empty, blank or
\* absent Y-DNA and matches without ancestry are not in the denominator.
C7_YdnaPercentageBase ==
    sphase = "done" =>
      /\ \A k \in 1..Len(stats.mostCommonYDNA) :
           LET e == stats.mostCommonYDNA[k]
               p == parseFloatStr(e.percentage)
               d == Cardinality(WithYdna)
           IN  /\ e.count = Cardinality({ i \in WithYdna :
                     matches[i].ancestry.haplogroups.ydna.s = e.haplogroup })
               /\ d > 0
               /\ ~p.nan /\ ~p.neg /\ p.den = 10
               /\ Len(e.percentage) = Len(NatToStr(p.num \div 10)) + 2
               /\ 2 * Abs(p.num * d - 1000 * e.count) <= d
      /\ \A i \in WithYdna :
           \E k \in 1..Len(stats.mostCommonYDNA) :
             stats.mostCommonYDNA[k].haplogroup
               = matches[i].ancestry.haplogroups.ydna.s

\* Four matches, two of them with Y-DNA, one of these R1b: R1b is listed with
\* count 1 and "50.0" (1/2, not 1/4); a blank Y-DNA and a match without
\* ancestry are among the four.
C7_Witness ==
    /\ sphase = "done"
    /\ Len(matches) = 4
    /\ Cardinality(WithYdna) = 2
    /\ \E i \in 1..4 : matches[i].ancestry = Undef
    /\ \E i \in 1..4 :
         /\ matches[i].ancestry.t = "object"
         /\ matches[i].ancestry.haplogroups.t = "object"
         /\ matches[i].ancestry.haplogroups.ydna = Str(<<" ">>)
    /\ \E k \in 1..Len(stats.mostCommonYDNA) :
         stats.mostCommonYDNA[k] =
           [haplogroup |-> s_R1b, count |-> 1, percentage |-> <<"5", "0", ".", "0">>]

\* The totalPercent values, in hundredths, that the matches hold for the
\* region node (id, label, parent_id): one per place of a node in the
\* regions of a match.
Observed(id, label, parent) ==
    UNION { { [m |-> i, place |-> sl,
               v |-> LET x == parseFloat(ObjGet(matches[i].ancestry.regions.nodeMap,
                                                sl.id).totalPercent)
                     IN  (x.num * 100) \div x.den] :
                sl \in { c \in ReturnedSlots(matches[i].ancestry.regions) :
                           LET n == ObjGet(matches[i].ancestry.regions.nodeMap, c.id)
                           IN  n.id = id /\ n.label = label /\ n.parent_id = parent } } :
            i \in { j \in 1..Len(matches) : matches[j].ancestry.t = "object" } }

RECURSIVE SumV(_)
SumV(S) == IF S = {} THEN 0
           ELSE LET x == CHOOSE y \in S : TRUE IN x.v + SumV(S \ {x})

\* C8: the averaged value of each region node is the sum of the totalPercent
\* values observed for the node over all matches, divided by the number of
\* matches passed in (those without the node or without ancestry included),
\* to 2 decimals; and every observed node has an averaged value.
C8_AverageOverAllMatches ==
    sphase = "done" =>
      /\ \A k \in 1..Len(stats.averageRegions.nodeMap) :
           LET n == stats.averageRegions.nodeMap[k].v
               p == parseFloatStr(n.average)
               sum == SumV(Observed(n.id, n.label, n.parent_id))
           IN  /\ ~p.nan /\ ~p.neg /\ p.den = 100
               /\ Len(n.average) = Len(NatToStr(p.num \div 100)) + 3
               /\ 2 * Abs(p.num * Len(matches) - sum) <= Len(matches)
      /\ \A i \in 1..Len(matches) :
           matches[i].ancestry.t = "object" =>
             \A sl \in ReturnedSlots(matches[i].ancestry.regions) :
               \E k \in 1..Len(stats.averageRegions.nodeMap) :
                 stats.averageRegions.nodeMap[k].k = sl.id

\* Three matches: Europe at 40.00, Europe at 60.00 and one with no Europe
\* node; the averaged Europe node, at top level, carries "33.33".
C8_Witness ==
    /\ sphase = "done"
    /\ Len(matches) = 3
    /\ Cardinality(Observed(s_eu, <<"E", "u", "r">>, s_root)) = 2
    /\ SumV(Observed(s_eu, <<"E", "u", "r">>, s_root)) = 10000
    /\ \E s \in TopSlots(stats.averageRegions) : s.id = s_eu
    /\ ObjGet(stats.averageRegions.nodeMap, s_eu).average
         = <<"3", "3", ".", "3", "3">>

----------------------------------------------------------------------------
(* The popup: session discovery, the fetchMatches click handler,
   fetchMatchDetails and extractAncestryDataForMatch *)

s_fail == <<"F", "a", "i", "l">>

s_FEMALE == <<"F", "E", "M", "A", "L", "E">>

s_profile == <<"a", "0">>

\* String.prototype.includes
Includes(s, sub) ==
    \E i \in 1..(Len(s) + 1) :
      i + Len(sub) - 1 <= Len(s) /\ SubSeq(s, i, i + Len(sub) - 1) = sub

\* String.prototype.indexOf of one character, counted from 1; 0 when absent.
IndexOf(s, c) ==
    IF \E i \in 1..Len(s) : s[i] = c
    THEN CHOOSE i \in 1..Len(s) : s[i] = c /\ \A j \in 1..(i - 1) : s[j] # c
    ELSE 0

\* The text after the last colon, which AfterColon must not be.
AfterColon_last(s) ==
    IF \E i \in 1..Len(s) : s[i] = ":"
    THEN LET i == CHOOSE k \in 1..Len(s) :
                    s[k] = ":" /\ \A j \in (k + 1)..Len(s) : s[j] # ":"
         IN  SubSeq(s, i + 1, Len(s))
    ELSE s

\* colonIndex !== -1 ? value.substring(colonIndex + 1) : value
AfterColon(s) ==
    IF IndexOf(s, ":") # 0 THEN SubSeq(s, IndexOf(s, ":") + 1, Len(s)) ELSE s

\* The body of profileHaplogroups.forEach for one entry, on [hap, thrown]:
\* reading h.result.haplogroup_id of an entry without result, or calling
\* indexOf on a value that is no string, throws.
HaplogroupEntry(h, st) ==
    IF st.thrown THEN st
    ELSE IF h.name = "yhaplo_2023:haplogroup"
    THEN IF h.result.t # "object" THEN [st EXCEPT !.thrown = TRUE]
         ELSE LET ydnaValue == h.result.haplogroup_id
              IN  IF Truthy(ydnaValue) /\ Includes(ydnaValue.s, s_FEMALE)
                  THEN [st EXCEPT !.hap.ydna = Str(<<>>)]
                  ELSE IF ydnaValue.t # "string"
                  THEN [st EXCEPT !.thrown = TRUE]
                  ELSE [st EXCEPT !.hap.ydna = Str(AfterColon(ydnaValue.s))]
    ELSE IF h.name = "mthaplo_build_7:haplogroup"
    THEN IF h.result.t # "object" THEN [st EXCEPT !.thrown = TRUE]
         ELSE LET mtdnaValue == h.result.haplogroup_id
              IN  IF mtdnaValue.t # "string"
                  THEN [st EXCEPT !.thrown = TRUE]
                  ELSE [st EXCEPT !.hap.mtdna = Str(AfterColon(mtdnaValue.s))]
    ELSE st

RECURSIVE HaplogroupEntries(_, _, _)
HaplogroupEntries(hs, i, st) ==
    IF i > Len(hs) THEN st
    ELSE HaplogroupEntries(hs, i + 1, HaplogroupEntry(hs[i], st))

\* The part of extractAncestryDataForMatch that reads an ok haplogroup
\* response: haplogroups = {} and then the forEach over the entries of the
\* target profile; what has been assigned stays when an entry throws.
ExtractHaplogroups(haplogroupData, targetProfileId) ==
    LET Mine(h) == h.profile_id = targetProfileId
        profileHaplogroups == SelectSeq(haplogroupData, Mine)
    IN  HaplogroupEntries(profileHaplogroups, 1,
                          [hap |-> Haplogroups(Undef, Undef), thrown |-> FALSE]).hap

\* Whether that forEach throws, which the catch of the function hides.
ExtractionThrows(haplogroupData, targetProfileId) ==
    LET Mine(h) == h.profile_id = targetProfileId
        profileHaplogroups == SelectSeq(haplogroupData, Mine)
    IN  HaplogroupEntries(profileHaplogroups, 1,
                          [hap |-> Haplogroups(Undef, Undef), thrown |-> FALSE]).thrown

HapResult(value) == [t |-> "object", haplogroup_id |-> Str(value)]

\* The haplogroup responses of the model for a target profile: a male and a
\* female subject, each with the entries of the requesting profile as well,
\* and a subject whose paternal-line result holds no haplogroup_id.
HaplogroupDataPool(id) ==
    { << [profile_id |-> s_profile, name |-> "yhaplo_2023:haplogroup",
          result |-> HapResult(<<"y", ":", "Q">>)],
         [profile_id |-> id, name |-> "yhaplo_2023:haplogroup",
          result |-> HapResult(<<"y", ":", "R", "1", "b">>)],
         [profile_id |-> id, name |-> "mthaplo_build_7:haplogroup",
          result |-> HapResult(<<"m", ":", "H">>)] >>,
      << [profile_id |-> id, name |-> "mthaplo_build_7:haplogroup",
          result |-> HapResult(<<"K">>)],
         [profile_id |-> id, name |-> "yhaplo_2023:haplogroup",
          result |-> HapResult(<<"y", ":">> \o s_FEMALE)],
         [profile_id |-> s_profile, name |-> "mthaplo_build_7:haplogroup",
          result |-> HapResult(<<"m", ":", "J">>)] >>,
      << [profile_id |-> id, name |-> "mthaplo_build_7:haplogroup",
          result |-> HapResult(<<"m", ":", "H">>)],
         [profile_id |-> id, name |-> "yhaplo_2023:haplogroup",
          result |-> [t |-> "object", haplogroup_id |-> Undef]] >> }

TreeNode(id, label, pct, parent, children) ==
    [id |-> id, label |-> label, totalPercent |-> pct, color |-> <<"#">>,
     parent_id |-> parent, children |-> children]

\* The population tree of the ancestry responses of the model.
SampleTree ==
    ( <<>> :> [RootNode EXCEPT !.children = ChildArray(2)] )
    @@ ( <<1>> :> TreeNode(s_eu, <<"E", "u", "r">>, Str(<<"4", "0", ".", "0", "0">>),
                          s_root, ChildArray(1)) )
    @@ ( <<1, 1>> :> TreeNode(<<"b", "r">>, <<"B", "r", "i">>,
                             Str(<<"2", "5", ".", "5", "0">>), s_eu, Undef) )
    @@ ( <<2>> :> TreeNode(<<"a", "s">>, <<"A", "s", "i">>, Str(<<"0", ".", "0">>),
                          s_root, Undef) )

\* The bodies of the ok ancestry responses of the model for a relative: no
\* population_trees, a tree of another profile only, the relative's tree.
AncestryDataPool(id) ==
    { [population_trees |-> Undef],
      [population_trees |->
         [t |-> "object",
          a |-> <<[profile_id |-> s_profile, using_latest_compute |-> TRUE,
                   population_tree |-> SampleTree]>>]],
      [population_trees |->
         [t |-> "object",
          a |-> <<[profile_id |-> s_profile, using_latest_compute |-> TRUE,
                   population_tree |-> SampleTree],
                  [profile_id |-> id, using_latest_compute |-> FALSE,
                   population_tree |-> SampleTree]>>]] }

\* data.population_trees.find(tree => tree.profile_id === targetProfileId),
\* after the test of data.population_trees: the index of the tree, 0 for none.
FindMatchingTree(data, targetProfileId) ==
    IF ~Truthy(data.population_trees) THEN 0
    ELSE LET a == data.population_trees.a
             hits == { i \in 1..Len(a) : a[i].profile_id = targetProfileId }
         IN  IF hits = {} THEN 0 ELSE CHOOSE i \in hits : \A j \in hits : i <= j

\* The entries extractNodes returns, as the code holds them.
EntriesOf(acc) == [i \in 1..Len(acc) |-> acc[i].entry]

\* buildHierarchy(extractNodes(matchingTree.population_tree))
RegionsOfTree(t) == buildHierarchy(EntriesOf(extractNodes(t, <<>>, <<>>)))

Relative(k, sharing) ==
    [relative_profile_id |-> <<Digits[k + 1]>>, is_open_sharing |-> sharing]

\* The relatives lists the service may return.
RelativesLists ==
    UNION { { [k \in 1..n |-> Relative(k, f[k])] : f \in [1..n -> BOOLEAN] } :
            n \in 0..MaxRelatives }

\* Array.prototype.slice(0, end) for end NaN, negative or not.
Slice0(a, end) ==
    LET e == IF end.nan THEN 0
             ELSE IF end.n < 0
                  THEN (IF Len(a) + end.n < 0 THEN 0 ELSE Len(a) + end.n)
                  ELSE (IF end.n > Len(a) THEN Len(a) ELSE end.n)
    IN  SubSeq(a, 1, e)

\* The values parseInt gives for the customAmount input.
CustomAmounts ==
    {[nan |-> TRUE, n |-> 0]} \cup { [nan |-> FALSE, n |-> n] : n \in -1..MaxRelatives }

\* The matches the click handler selects.
MatchesToFetch(fetchType, customAmount) ==
    LET Sharing(r) == r.is_open_sharing = TRUE
    IN  IF fetchType = "sharing"
        THEN SelectSeq(allRelativesData, Sharing)
        ELSE Slice0(SelectSeq(allRelativesData, Sharing), customAmount)

NoRegions == [result |-> <<>>, nodeMap |-> <<>>]

\* An invocation of the click handler that has not run. Besides the locals of
\* the handler it records what the invocation has done: log, the records it
\* pushed; trace, the timer and network events of the current match;
\* outstanding, its requests in flight; pauses, the 500 ms pauses that elapsed.
IdleHandler ==
    [pc |-> "idle", matchesToFetch |-> <<>>, i |-> 0, latest |-> FALSE,
     regions |-> NoRegions, log |-> <<>>, trace |-> <<>>, outstanding |-> 0,
     pauses |-> 0]

Text(kind, a, b) == [kind |-> kind, a |-> a, b |-> b]

InitBatch ==
    /\ currentProfileId = Null
    /\ allRelativesData = <<>>
    /\ enrichedMatchesData = <<>>
    /\ saveDisabled \in BOOLEAN
    /\ progress = Text("", 0, 0)
    /\ relativesStatus = "Loading"
    /\ loadpc = "await_profile"
    /\ handlers = [h \in 1..MaxClicks |-> IdleHandler]

\* An autoFetchProfileAndRelatives that reports a failed discovery and goes
\* on to request the relatives all the same.
ProfileResponse_ignoreFailure ==
    /\ loadpc = "await_profile"
    /\ \E outcome \in {"throw", "http_error", "no_pattern", "ok"} :
         /\ relativesStatus' = IF outcome = "ok" THEN "Loading..."
                                ELSE "Error fetching profile"
         /\ currentProfileId' = IF outcome = "ok" THEN Str(s_profile)
                                 ELSE currentProfileId
         /\ loadpc' = "await_relatives"
    /\ UNCHANGED <<allRelativesData, enrichedMatchesData, saveDisabled,
                   progress, handlers>>

\* autoFetchProfileAndRelatives: the response to the request for the home
\* page arrives (or the request throws).
ProfileResponse ==
    /\ loadpc = "await_profile"
    /\ \E outcome \in {"throw", "http_error", "no_pattern", "ok"} :
         IF outcome = "ok"
         THEN /\ currentProfileId' = Str(s_profile)
              /\ relativesStatus' = "Loading..."
              /\ loadpc' = "await_relatives"
         ELSE /\ relativesStatus' = "Error fetching profile"
              /\ loadpc' = "done"
              /\ UNCHANGED currentProfileId
    /\ UNCHANGED <<allRelativesData, enrichedMatchesData, saveDisabled,
                   progress, handlers>>

\* fetchAndDisplay for 'Family Relatives': the response arrives.
RelativesResponse ==
    /\ loadpc = "await_relatives"
    /\ \/ /\ \E outcome \in {"throw", "http_error"} :
               relativesStatus' = "Error"
          /\ UNCHANGED allRelativesData
       \/ /\ relativesStatus' = "Success"
          /\ \E data \in RelativesLists : allRelativesData' = data
       \/ /\ relativesStatus' = "Success"
          /\ UNCHANGED allRelativesData
    /\ loadpc' = "done"
    /\ UNCHANGED <<currentProfileId, enrichedMatchesData, saveDisabled,
                   progress, handlers>>

\* The first invocation of the click handler that has not run yet.
NextHandler == CHOOSE h \in 1..MaxClicks :
                 handlers[h].pc = "idle" /\ \A g \in 1..(h - 1) : handlers[g].pc # "idle"

\* A click on fetchMatches: the handler up to its first await.
ClickFetchMatches ==
    /\ \E h \in 1..MaxClicks : handlers[h].pc = "idle"
    /\ \E fetchType \in {"sharing", "custom"}, customAmount \in CustomAmounts :
         LET h == NextHandler
             matchesToFetch == MatchesToFetch(fetchType, customAmount)
         IN  IF Len(matchesToFetch) = 0
             THEN /\ progress' = Text("No matches to fetch", 0, 0)
                  /\ handlers' = [handlers EXCEPT ![h].pc = "done"]
                  /\ UNCHANGED <<saveDisabled, enrichedMatchesData>>
             ELSE /\ progress' = Text("Fetching", 1, Len(matchesToFetch))
                  /\ saveDisabled' = TRUE
                  /\ enrichedMatchesData' = <<>>
                  /\ handlers' = [handlers EXCEPT
                        ![h].pc = "await_pause_ancestry",
                        ![h].matchesToFetch = matchesToFetch,
                        ![h].i = 0]
    /\ UNCHANGED <<currentProfileId, allRelativesData, relativesStatus, loadpc>>

\* fetchMatchDetails: the 2000 ms pause is over and the ancestry request is made.
AncestryTimer(h) ==
    /\ handlers[h].pc = "await_pause_ancestry"
    /\ handlers' = [handlers EXCEPT
          ![h].pc = "await_fetch_ancestry",
          ![h].trace = handlers[h].trace \o <<"pause", "ancestry_request">>,
          ![h].outstanding = handlers[h].outstanding + 1]
    /\ UNCHANGED <<currentProfileId, allRelativesData, enrichedMatchesData,
                   saveDisabled, progress, relativesStatus, loadpc>>

\* A loop that pushes the record and goes on to the next match at once,
\* without the 500 ms pause.
PushEnriched_noPause(h, rec, outcome, events) ==
    /\ enrichedMatchesData' = Append(enrichedMatchesData, rec)
    /\ handlers' = [handlers EXCEPT
          ![h].pc = IF handlers[h].i + 1 < Len(handlers[h].matchesToFetch)
                    THEN "await_pause_ancestry" ELSE "await_pause_loop",
          ![h].i = IF handlers[h].i + 1 < Len(handlers[h].matchesToFetch)
                   THEN handlers[h].i + 1 ELSE handlers[h].i,
          ![h].regions = NoRegions,
          ![h].trace = <<>>,
          ![h].outstanding = handlers[h].outstanding - 1,
          ![h].log = Append(handlers[h].log,
                            [id |-> rec.relative_profile_id, outcome |-> outcome])]

\* fetchMatchDetails returns enrichedMatch and the loop pushes it, then
\* starts its 500 ms pause. events are the network events that ended the
\* request in flight (none when it threw).
PushEnriched(h, rec, outcome, events) ==
    /\ enrichedMatchesData' = Append(enrichedMatchesData, rec)
    /\ handlers' = [handlers EXCEPT
          ![h].pc = "await_pause_loop",
          ![h].regions = NoRegions,
          ![h].trace = handlers[h].trace \o events,
          ![h].outstanding = handlers[h].outstanding - 1,
          ![h].log = Append(handlers[h].log,
                            [id |-> rec.relative_profile_id, outcome |-> outcome])]

\* A fetchMatchDetails that tries the ancestry request once more after it
\* threw, and gives up with ancestry_error on the second failure.
AncestryResponse_retry(h) ==
    /\ handlers[h].pc = "await_fetch_ancestry"
    /\ LET match == handlers[h].matchesToFetch[handlers[h].i + 1]
           id == match.relative_profile_id
       IN  IF Len(handlers[h].trace) <= 2
           THEN /\ handlers' = [handlers EXCEPT
                      ![h].pc = "await_pause_ancestry",
                      ![h].outstanding = handlers[h].outstanding - 1]
                /\ UNCHANGED enrichedMatchesData
           ELSE PushEnriched(h, EnrichedMatch(id, Undef, Str(s_fail)), "throw", <<>>)
    /\ UNCHANGED <<currentProfileId, allRelativesData, saveDisabled, progress,
                   relativesStatus, loadpc>>

\* fetchMatchDetails: the ancestry request throws or its response arrives.
AncestryResponse(h) ==
    /\ handlers[h].pc = "await_fetch_ancestry"
    /\ LET match == handlers[h].matchesToFetch[handlers[h].i + 1]
           id == match.relative_profile_id
       IN  \/ PushEnriched(h, EnrichedMatch(id, Undef, Str(s_fail)), "throw", <<>>)
           \/ PushEnriched(h, EnrichedMatch(id, Undef, Undef), "http_error",
                           <<"ancestry_response">>)
           \/ \E data \in AncestryDataPool(id) :
                LET k == FindMatchingTree(data, id)
                IN  IF k = 0
                    THEN PushEnriched(h, EnrichedMatch(id, Null, Undef), "no_tree",
                                      <<"ancestry_response">>)
                    ELSE LET matchingTree == data.population_trees.a[k]
                         IN  /\ handlers' = [handlers EXCEPT
                                   ![h].pc = "await_pause_haplogroup",
                                   ![h].trace = Append(handlers[h].trace,
                                                       "ancestry_response"),
                                   ![h].outstanding = handlers[h].outstanding - 1,
                                   ![h].latest = matchingTree.using_latest_compute,
                                   ![h].regions = RegionsOfTree(matchingTree.population_tree)]
                             /\ UNCHANGED enrichedMatchesData
    /\ UNCHANGED <<currentProfileId, allRelativesData, saveDisabled, progress,
                   relativesStatus, loadpc>>

\* extractAncestryDataForMatch: the 2000 ms pause is over, the cookies are
\* read and the haplogroup request is made.
HaplogroupTimer(h) ==
    /\ handlers[h].pc = "await_pause_haplogroup"
    /\ handlers' = [handlers EXCEPT
          ![h].pc = "await_fetch_haplogroup",
          ![h].trace = handlers[h].trace \o <<"pause", "haplogroup_request">>,
          ![h].outstanding = handlers[h].outstanding + 1]
    /\ UNCHANGED <<currentProfileId, allRelativesData, enrichedMatchesData,
                   saveDisabled, progress, relativesStatus, loadpc>>

\* extractAncestryDataForMatch: the haplogroup request throws or its response
\* arrives; the ancestry record is returned and assigned to enrichedMatch.
HaplogroupResponse(h) ==
    /\ handlers[h].pc = "await_fetch_haplogroup"
    /\ LET match == handlers[h].matchesToFetch[handlers[h].i + 1]
           id == match.relative_profile_id
           Done(haplogroups, outcome, events) ==
             PushEnriched(h, EnrichedMatch(id,
                 Ancestry(handlers[h].latest, haplogroups, handlers[h].regions),
                 Undef), outcome, events)
       IN  \/ Done(Null, "tree_hap_throw", <<>>)
           \/ Done(Null, "tree_hap_http", <<"haplogroup_response">>)
           \/ \E data \in HaplogroupDataPool(id) :
                Done(ExtractHaplogroups(data, id),
                     IF ExtractionThrows(data, id) THEN "tree_hap_entry" ELSE "tree",
                     <<"haplogroup_response">>)
    /\ UNCHANGED <<currentProfileId, allRelativesData, saveDisabled, progress,
                   relativesStatus, loadpc>>

\* The 500 ms pause of the loop is over: the next match, or the completion.
LoopTimer(h) ==
    /\ handlers[h].pc = "await_pause_loop"
    /\ IF handlers[h].i + 1 < Len(handlers[h].matchesToFetch)
       THEN /\ handlers' = [handlers EXCEPT ![h].i = handlers[h].i + 1,
                                            ![h].pauses = handlers[h].pauses + 1,
                                            ![h].trace = <<>>,
                                            ![h].pc = "await_pause_ancestry"]
            /\ progress' = Text("Fetching", handlers[h].i + 2,
                                Len(handlers[h].matchesToFetch))
            /\ UNCHANGED saveDisabled
       ELSE /\ handlers' = [handlers EXCEPT ![h].i = handlers[h].i + 1,
                                            ![h].pauses = handlers[h].pauses + 1,
                                            ![h].pc = "done"]
            /\ progress' = Text("Completed", Len(enrichedMatchesData), 0)
            /\ saveDisabled' = FALSE
    /\ UNCHANGED <<currentProfileId, allRelativesData, enrichedMatchesData,
                   relativesStatus, loadpc>>

NextBatch ==
    \/ ProfileResponse /\ UNCHANGED <<varsFlatten, varsHier, varsStats, varsPages>>
    \/ RelativesResponse /\ UNCHANGED <<varsFlatten, varsHier, varsStats, varsPages>>
    \/ ClickFetchMatches /\ UNCHANGED <<varsFlatten, varsHier, varsStats, varsPages>>
    \/ \E h \in 1..MaxClicks :
         AncestryTimer(h) /\ UNCHANGED <<varsFlatten, varsHier, varsStats, varsPages>>
    \/ \E h \in 1..MaxClicks :
         AncestryResponse(h) /\ UNCHANGED <<varsFlatten, varsHier, varsStats, varsPages>>
    \/ \E h \in 1..MaxClicks :
         HaplogroupTimer(h) /\ UNCHANGED <<varsFlatten, varsHier, varsStats, varsPages>>
    \/ \E h \in 1..MaxClicks :
         HaplogroupResponse(h) /\ UNCHANGED <<varsFlatten, varsHier, varsStats, varsPages>>
    \/ \E h \in 1..MaxClicks :
         LoopTimer(h) /\ UNCHANGED <<varsFlatten, varsHier, varsStats, varsPages>>

StartBatch == InitBatch /\ IdleFlatten /\ IdleHier /\ IdleStats /\ IdlePages

SpecBatch == StartBatch /\ [][NextBatch]_vars

\* The result list holds exactly the records of the batch of handler h: one
\* per selected match, in the order of the selection, with ancestry_error and
\* The outcomes logged for a match with a matching tree: the haplogroups
\* were read, or the haplogroup request threw, answered non-2xx, or held an
\* entry that made the extraction throw.
TreeOutcomes == {"tree", "tree_hap_throw", "tree_hap_http", "tree_hap_entry"}

\* no ancestry where the ancestry request threw, and with a populated
\* ancestry where it succeeded with a matching tree.
BatchResultOk(h) ==
    LET sel == handlers[h].matchesToFetch
    IN  /\ Len(enrichedMatchesData) = Len(sel)
        /\ Len(handlers[h].log) = Len(sel)
        /\ \A k \in 1..Len(sel) :
             k <= Len(enrichedMatchesData) /\ k <= Len(handlers[h].log) =>
               LET rec == enrichedMatchesData[k]
                   out == handlers[h].log[k].outcome
               IN  /\ rec.relative_profile_id = sel[k].relative_profile_id
                   /\ out = "throw" =>
                        rec.ancestry_error.t = "string" /\ rec.ancestry = Undef
                   /\ out \in TreeOutcomes => rec.ancestry.t = "object"

\* C9: when a batch completes, whatever subset of its ancestry requests threw,
\* the result list holds exactly its N records in input order, nothing left
\* over from an earlier batch; failing matches carry ancestry_error and no
\* ancestry, matches with a matching tree carry ancestry.
C9_BatchPartialFailure ==
    [][ \A h \in 1..MaxClicks :
          (handlers[h].pc = "await_pause_loop" /\ handlers'[h].pc = "done")
            => BatchResultOk(h)' ]_vars

\* C10: whenever the ancestry fetch of a match fails, by a transport error or
\* by a non-2xx response, the record pushed for the match carries an
\* ancestry_error string and no ancestry; no record of the result list has
\* neither field.
C10_FailureCarriesError ==
    [][ /\ \A h \in 1..MaxClicks :
             Len(handlers'[h].log) = Len(handlers[h].log) + 1 =>
               LET out == handlers'[h].log[Len(handlers'[h].log)].outcome
                   rec == enrichedMatchesData'[Len(enrichedMatchesData')]
               IN  out \in {"throw", "http_error"} =>
                     rec.ancestry_error.t = "string" /\ rec.ancestry = Undef
        /\ \A k \in 1..Len(enrichedMatchesData') :
             \/ enrichedMatchesData'[k].ancestry # Undef
             \/ enrichedMatchesData'[k].ancestry_error # Undef ]_vars

\* The record handler h pushes in this step, with the outcome logged for it.
Pushed(h) == Len(handlers'[h].log) = Len(handlers[h].log) + 1

LastLogged(h) == handlers'[h].log[Len(handlers'[h].log)]

LastPushed == enrichedMatchesData'[Len(enrichedMatchesData')]

\* C11: when an ok ancestry response holds no population tree for the
\* requested profile id (population_trees absent or without an entry of that
\* profile_id), the record pushed for the match carries an ancestry_error
\* string and no ancestry.
C11_MissingTreeIsError ==
    [][ \A h \in 1..MaxClicks :
          Pushed(h) /\ LastLogged(h).outcome = "no_tree" =>
            /\ LastPushed.ancestry_error.t = "string"
            /\ LastPushed.ancestry = Undef ]_vars

\* The invocation h of the click handler is inside its loop.
Running(h) == handlers[h].pc \notin {"idle", "done"}

\* The profile ids of the records of a list, in order.
IdsOf(list) == [k \in 1..Len(list) |-> list[k].relative_profile_id]

\* C12: whatever the clicks, at most one batch loop at a time resets and
\* appends to enrichedMatchesData: while a batch runs, the list holds exactly
\* the records that batch has pushed so far, none discarded and none of
\* another batch among them.
C12_SingleBatchLoop ==
    /\ Cardinality({ h \in 1..MaxClicks : Running(h) }) <= 1
    /\ \A h \in 1..MaxClicks :
         Running(h) =>
           IdsOf(enrichedMatchesData)
             = [k \in 1..Len(handlers[h].log) |-> handlers[h].log[k].id]

\* Handler h issues the ancestry request of its current match in this step.
IssuesAncestryRequest(h) ==
    /\ handlers[h].pc = "await_pause_ancestry"
    /\ handlers'[h].pc = "await_fetch_ancestry"

\* C13: within one batch the matches are enriched one at a time: the ancestry
\* request of the match at index i is issued only when the batch has pushed
\* the records of the i matches before it and the i pauses after them have
\* elapsed, with no request of the batch in flight; a batch never has more
\* than one request outstanding.
C13_OneAtATime ==
    [][ \A h \in 1..MaxClicks :
          /\ handlers'[h].outstanding \in {0, 1}
          /\ IssuesAncestryRequest(h) =>
               /\ Len(handlers[h].log) = handlers[h].i
               /\ handlers[h].pauses = handlers[h].i
               /\ handlers[h].outstanding = 0 ]_vars

\* The request of the second match of a batch is in flight.
C13_Witness ==
    \E h \in 1..MaxClicks :
      /\ handlers[h].pc = "await_fetch_ancestry"
      /\ handlers[h].i = 1
      /\ Len(handlers[h].log) = 1
      /\ handlers[h].outstanding = 1

\* The events of one match when both requests are made and answered.
FullTrace ==
    <<"pause", "ancestry_request", "ancestry_response",
      "pause", "haplogroup_request", "haplogroup_response">>

IsPrefix(s, t) == Len(s) <= Len(t) /\ SubSeq(t, 1, Len(s)) = s

HasEvent(s, e) == \E k \in 1..Len(s) : s[k] = e

\* C14: the events of each match of a batch are a prefix of pause, ancestry
\* request, ancestry response, pause, haplogroup request, haplogroup response,
\* so each request is made at most once per match; a match for which the
\* haplogroup request was made is one whose ancestry response held a matching
\* tree.
C14_MatchTrace ==
    [][ \A h \in 1..MaxClicks :
          /\ IsPrefix(handlers'[h].trace, FullTrace)
          /\ Pushed(h) /\ HasEvent(handlers'[h].trace, "haplogroup_request")
               => LastLogged(h).outcome \in TreeOutcomes
          /\ Pushed(h) /\ LastLogged(h).outcome = "throw"
               => handlers'[h].trace = SubSeq(FullTrace, 1, 2) ]_vars

\* One match went through both requests, and another stopped at a thrown
\* ancestry request.
C14_Witness ==
    \E h, g \in 1..MaxClicks :
      /\ handlers[h].trace = FullTrace
      /\ handlers[h].pc = "done"
      /\ handlers[g].trace = SubSeq(FullTrace, 1, 2)
      /\ handlers[g].pc = "done"
      /\ Len(handlers[g].log) = 1 /\ handlers[g].log[1].outcome = "throw"

\* C15: once the discovery of the profile id has failed on load (the request
\* threw, answered non-2xx, or the page held no currentProfileId), the error
\* is in the status element, the relatives request is never made, and clicks
\* on fetchMatches make no request and leave the result list as it was.
C15_DiscoveryFailureHalts ==
    relativesStatus = "Error fetching profile" =>
      /\ loadpc = "done"
      /\ currentProfileId = Null
      /\ allRelativesData = <<>>
      /\ enrichedMatchesData = <<>>
      /\ \A h \in 1..MaxClicks :
           /\ handlers[h].pc \in {"idle", "done"}
           /\ handlers[h].trace = <<>>
           /\ handlers[h].log = <<>>
           /\ handlers[h].outstanding = 0

\* The discovery failed and fetchMatches was clicked twice afterwards.
C15_Witness ==
    /\ relativesStatus = "Error fetching profile"
    /\ \A h \in 1..MaxClicks : handlers[h].pc = "done"
    /\ progress.kind = "No matches to fetch"

\* A step of invocation h of the click handler after the click: one of its
\* timers fires or one of its requests returns or throws.
HandlerStep(h) ==
    /\ \/ AncestryTimer(h)
       \/ AncestryResponse(h)
       \/ HaplogroupTimer(h)
       \/ HaplogroupResponse(h)
       \/ LoopTimer(h)
    /\ UNCHANGED <<varsFlatten, varsHier, varsStats, varsPages>>

\* The popup when every timer fires and every request returns or throws.
\* Clicks are up to the user.
SpecBatchFair ==
    /\ SpecBatch
    /\ \A h \in 1..MaxClicks : WF_vars(HandlerStep(h))

\* The batch of invocation h is complete: its loop has ended, every match it
\* selected has a record in the result list, the progress text reports the
\* completion and the save button is enabled.
BatchCompleted(h) ==
    /\ handlers[h].pc = "done"
    /\ \A k \in 1..Len(handlers[h].matchesToFetch) :
         \E j \in 1..Len(enrichedMatchesData) :
           enrichedMatchesData[j].relative_profile_id
             = handlers[h].matchesToFetch[k].relative_profile_id
    /\ progress.kind = "Completed"
    /\ saveDisabled = FALSE

\* C16: when every timer fires and every request returns or throws, a batch
\* that started reaches its completed state, whatever fails for its matches.
C16_BatchTerminates ==
    \A h \in 1..MaxClicks : Running(h) ~> BatchCompleted(h)

\* The k-th haplogroup name of a family: a letter and the digits of k.
HapName(letter, k) == <<letter>> \o NatToStr(k)

\* A match with the j-th Y-DNA haplogroup, or none for a female match, and
\* the j-th mtDNA haplogroup.
RankMatch(j, female) ==
    EnrichedMatch(NatToStr(j),
                  Ancestry(TRUE, Haplogroups(IF female THEN Str(<<>>)
                                             ELSE Str(HapName("R", j)),
                                             Str(HapName("H", j))),
                           RegionsNone),
                  Undef)

\* The number of distinct mtDNA haplogroups of the matches.
Distinct == Cardinality({ matches[i].ancestry.haplogroups.mtdna : i \in 1..Len(matches) })

\* The next match brings a haplogroup pair not seen before.
SupplyNewHaplogroup ==
    /\ sphase = "input"
    /\ Len(matches) = Distinct
    /\ Len(matches) < MaxDistinct
    /\ matches' = Append(matches, RankMatch(Len(matches) + 1, FALSE))
    /\ UNCHANGED <<stats, sphase>>

\* The next match repeats a haplogroup pair seen before; it may be female.
SupplyRepeat ==
    /\ sphase = "input"
    /\ Len(matches) - Distinct < MaxRepeats
    /\ \E j \in 1..Distinct, female \in BOOLEAN :
         matches' = Append(matches, RankMatch(j, female))
    /\ UNCHANGED <<stats, sphase>>

NextRank ==
    \/ SupplyNewHaplogroup /\ UNCHANGED <<varsFlatten, varsHier, varsBatch, varsPages>>
    \/ SupplyRepeat /\ UNCHANGED <<varsFlatten, varsHier, varsBatch, varsPages>>
    \/ CallCalculateMatchStatistics /\ UNCHANGED <<varsFlatten, varsHier, varsBatch, varsPages>>

\* calculateMatchStatistics on matches with more haplogroups than are listed.
SpecRank == StartStats /\ [][NextRank]_vars

\* The places of region nodes in the regions of the matches, each with the
\* node found there.
ObservedNodes ==
    UNION { { [m |-> i, place |-> sl,
               node |-> ObjGet(matches[i].ancestry.regions.nodeMap, sl.id)] :
                sl \in ReturnedSlots(matches[i].ancestry.regions) } :
            i \in { j \in 1..Len(matches) : matches[j].ancestry.t = "object" } }

SameTriple(a, b) ==
    a.id = b.id /\ a.label = b.label /\ a.parent_id = b.parent_id

\* C17: collectRegionData keeps one list of observed percentages per distinct
\* (id, label, parent_id): every observed triple has its own accumulator,
\* which holds one value per observed node of exactly that triple, whatever
\* characters the three strings contain.
C17_KeyPerTriple ==
    sphase = "done" =>
      /\ \A o \in ObservedNodes :
           \E k \in 1..Len(stats.regionData) :
             SameTriple(stats.regionData[k].v, o.node)
      /\ \A k \in 1..Len(stats.regionData) :
           Len(stats.regionData[k].v.values)
             = Cardinality({ o \in ObservedNodes :
                               SameTriple(stats.regionData[k].v, o.node) })

\* The regionData that collectRegionData accumulates for the region entries ns.
RECURSIVE RegionDataOf(_, _, _)
RegionDataOf(ns, i, regionData) ==
    IF i > Len(ns) THEN regionData
    ELSE RegionDataOf(ns, i + 1, CollectRegion(ns[i], regionData))

DistinctTriples(ns) == \A i, j \in 1..Len(ns) : SameTriple(ns[i], ns[j]) => i = j

\* C18: for region entries of pairwise distinct (id, label, parent_id),
\* buildAverageRegionHierarchy gives the shape buildHierarchy gives on the
\* same entries: the same top-level entries per label, the same id index, the
\* same children per parent and label, and a child mapping on the same nodes
\* (none on childless nodes).
C18_SameShape ==
    (hphase = "done" /\ DistinctTriples(nodes)) =>
      LET avg == buildAverageRegionHierarchy(RegionDataOf(nodes, 1, <<>>), 1)
      IN  /\ avg.result = hier.result
          /\ Len(avg.nodeMap) = Len(hier.nodeMap)
          /\ \A k \in 1..Len(hier.nodeMap) :
               k <= Len(avg.nodeMap) =>
                 /\ avg.nodeMap[k].k = hier.nodeMap[k].k
                 /\ avg.nodeMap[k].v.children = RegionsOf(hier.nodeMap[k].v)
                 /\ ("children" \in DOMAIN avg.nodeMap[k].v)
                      <=> (hier.nodeMap[k].v.regions # Undef)

\* The haplogroup of kind which ("ydna" or "mtdna") that the tally counts for
\* match m: the value when it is a string that is not blank, else <<>>.
CountedHap(m, which) ==
    IF /\ m.ancestry.t = "object"
       /\ m.ancestry.haplogroups.t = "object"
       /\ m.ancestry.haplogroups[which].t = "string"
       /\ \E i \in 1..Len(m.ancestry.haplogroups[which].s) :
            m.ancestry.haplogroups[which].s[i] # " "
    THEN m.ancestry.haplogroups[which].s
    ELSE <<>>

Carriers(hap, which) == { i \in 1..Len(matches) : CountedHap(matches[i], which) = hap }

FirstCarrier(hap, which) ==
    CHOOSE i \in Carriers(hap, which) : \A j \in Carriers(hap, which) : i <= j

\* The ranking list is the ranking of the haplogroups of kind which: at most
\* 10 entries with their counts, in non-increasing order of count, entries of
\* equal count in the order of their first carriers, and nothing omitted that
\* has a greater count than a listed entry.
IsRanking(list, which) ==
    LET haps == { CountedHap(matches[i], which) : i \in 1..Len(matches) } \ {<<>>}
        listed == { list[k].haplogroup : k \in 1..Len(list) }
    IN  /\ Len(list) <= 10
        /\ Len(list) = (IF Cardinality(haps) < 10 THEN Cardinality(haps) ELSE 10)
        /\ \A k \in 1..Len(list) :
             /\ list[k].haplogroup \in haps
             /\ list[k].count = Cardinality(Carriers(list[k].haplogroup, which))
        /\ \A k, l \in 1..Len(list) :
             k < l =>
               /\ list[k].count >= list[l].count
               /\ list[k].count = list[l].count =>
                    FirstCarrier(list[k].haplogroup, which)
                      < FirstCarrier(list[l].haplogroup, which)
        /\ \A hap \in haps \ listed :
             \A k \in 1..Len(list) :
               Cardinality(Carriers(hap, which)) <= list[k].count

\* C19: mostCommonYDNA and mostCommonMtDNA list at most 10 haplogroups in
\* non-increasing order of count, haplogroups of equal count in the order in
\* which they were first met in the matches, and no omitted haplogroup has a
\* greater count than a listed one.
C19_Ranking ==
    sphase = "done" =>
      /\ IsRanking(stats.mostCommonYDNA, "ydna")
      /\ IsRanking(stats.mostCommonMtDNA, "mtdna")

\* Twelve haplogroups, the eleventh met twice: it is listed first, the first
\* nine follow in the order met, the tenth and the twelfth are omitted; the
\* Y-DNA list differs, its repeat being a female match.
C19_Witness ==
    /\ sphase = "done"
    /\ Distinct = 12
    /\ Len(stats.mostCommonMtDNA) = 10
    /\ stats.mostCommonMtDNA[1].haplogroup = HapName("H", 11)
    /\ stats.mostCommonMtDNA[1].count = 2
    /\ \A k \in 2..10 : stats.mostCommonMtDNA[k].haplogroup = HapName("H", k - 1)
    /\ stats.mostCommonYDNA[1].haplogroup = HapName("R", 1)
    /\ stats.mostCommonYDNA[10].haplogroup = HapName("R", 10)

\* C20: each listed mtDNA haplogroup has the number of matches carrying it as
\* count, and as percentage count / (number of matches passed in) x 100 to
\* one decimal; matches with empty or absent mtDNA, without haplogroups or
\* without ancestry are in the denominator.
C20_MtdnaPercentageBase ==
    sphase = "done" =>
      \A k \in 1..Len(stats.mostCommonMtDNA) :
        LET e == stats.mostCommonMtDNA[k]
            p == parseFloatStr(e.percentage)
            d == Len(matches)
        IN  /\ e.count = Cardinality(Carriers(e.haplogroup, "mtdna"))
            /\ e.count > 0
            /\ ~p.nan /\ ~p.neg /\ p.den = 10
            /\ Len(e.percentage) = Len(NatToStr(p.num \div 10)) + 2
            /\ 2 * Abs(p.num * d - 1000 * e.count) <= d

\* Three matches, one with mtDNA H, one without ancestry and one whose
\* haplogroups hold no mtDNA: H is listed with count 1 and "33.3" (1/3).
C20_Witness ==
    /\ sphase = "done"
    /\ Len(matches) = 3
    /\ \E i \in 1..3 : matches[i].ancestry = Undef
    /\ \E i \in 1..3 :
         /\ matches[i].ancestry.t = "object"
         /\ matches[i].ancestry.haplogroups.t = "object"
         /\ matches[i].ancestry.haplogroups.mtdna = Undef
    /\ stats.mostCommonMtDNA =
         <<[haplogroup |-> <<"H">>, count |-> 1, percentage |-> <<"3", "3", ".", "3">>]>>

\* C21: calculateMatchStatistics on an empty sequence returns, with
\* totalMatches 0 and nothing listed or averaged; the Y-DNA percentage over a
\* zero denominator is "0.0", for every count, so that whatever is listed
\* when no match has Y-DNA carries "0.0".
C21_EmptyInput ==
    sphase = "done" =>
      /\ matches = <<>> =>
           /\ stats.totalMatches = 0
           /\ stats.mostCommonYDNA = <<>>
           /\ stats.mostCommonMtDNA = <<>>
           /\ stats.averageRegions.result = <<>>
      /\ \A c \in 0..Len(matches) : YdnaPercentage(c, 0) = <<"0", ".", "0">>
      /\ WithYdna = {} =>
           \A k \in 1..Len(stats.mostCommonYDNA) :
             stats.mostCommonYDNA[k].percentage = <<"0", ".", "0">>

\* calculateMatchStatistics has returned for the empty sequence.
C21_Witness ==
    /\ sphase = "done"
    /\ matches = <<>>
    /\ stats.totalMatches = 0

----------------------------------------------------------------------------
(* The haplogroup extraction on its own (SpecHaplo): the entries of an ok    *)
(* haplogroup response are supplied one at a time and the extraction of      *)
(* extractAncestryDataForMatch is applied to them for the profile s_target.  *)

MaxHapEntries == 2

s_target == <<"1">>

\* The raw haplogroup values of the model: with and without a colon, with
\* two colons, and the female marker alone, before and after a colon.
HapValues ==
    { <<"y", ":", "R">>, <<"R">>, <<"a", ":", "b", ":", "c">>,
      s_FEMALE, <<"y", ":">> \o s_FEMALE, s_FEMALE \o <<":", "x">> }

HapNames == {"yhaplo_2023:haplogroup", "mthaplo_build_7:haplogroup", "other"}

\* The entries of a haplogroup response: of the target and of another profile.
HapEntryPool ==
    { [profile_id |-> p, name |-> n, result |-> HapResult(v)] :
        p \in {s_target, s_profile}, n \in HapNames, v \in HapValues }

InitHaplo == hapData = <<>> /\ hapPair = <<>> /\ xphase = "input"

SupplyHapEntry ==
    /\ xphase = "input"
    /\ Len(hapData) < MaxHapEntries
    /\ \E e \in HapEntryPool : hapData' = Append(hapData, e)
    /\ UNCHANGED <<hapPair, xphase>>

\* haplogroups = {}; profileHaplogroups.forEach(...) for s_target
CallExtractHaplogroups ==
    /\ xphase = "input"
    /\ hapPair' = ExtractHaplogroups(hapData, s_target)
    /\ xphase' = "done"
    /\ UNCHANGED hapData

NextHaplo ==
    \/ SupplyHapEntry /\ UNCHANGED <<varsFlatten, varsHier, varsStats, varsBatch, varsTable, varsPaged>>
    \/ CallExtractHaplogroups /\ UNCHANGED <<varsFlatten, varsHier, varsStats, varsBatch, varsTable, varsPaged>>

StartHaplo ==
    InitHaplo /\ IdleFlatten /\ IdleHier /\ IdleStats /\ IdleBatch /\ IdleTable /\ IdlePaged

SpecHaplo == StartHaplo /\ [][NextHaplo]_vars

\* The raw values of the entries of the target profile with the given name,
\* in the order of the response.
RawValues(name) ==
    LET Mine(e) == e.profile_id = s_target /\ e.name = name
        mine == SelectSeq(hapData, Mine)
    IN  [i \in 1..Len(mine) |-> mine[i].result.haplogroup_id.s]

\* r is the text of s after its first colon, or s when it has none.
IsTextAfterFirstColon(s, r) ==
    IF \A i \in 1..Len(s) : s[i] # ":"
    THEN r = s
    ELSE \E i \in 1..Len(s) :
           /\ s[i] = ":"
           /\ \A j \in 1..(i - 1) : s[j] # ":"
           /\ Len(r) = Len(s) - i
           /\ \A k \in 1..Len(r) : r[k] = s[i + k]

\* C22: of the entries of the target profile the last paternal-line value
\* decides ydna ("" when it contains FEMALE, with or without a colon, else
\* the text after its first colon, else the whole value) and the last
\* maternal-line value decides mtdna (the text after its first colon or the
\* whole value, whatever it contains); entries of other profiles and of
\* other names leave the pair as it is.
C22_HaplogroupExtraction ==
    xphase = "done" =>
      LET ys == RawValues("yhaplo_2023:haplogroup")
          ms == RawValues("mthaplo_build_7:haplogroup")
      IN  /\ ys = <<>> => hapPair.ydna = Undef
          /\ ys # <<>> =>
                /\ hapPair.ydna.t = "string"
                /\ IF \E i \in 1..(Len(ys[Len(ys)]) - 5) :
                        SubSeq(ys[Len(ys)], i, i + 5) = s_FEMALE
                   THEN hapPair.ydna.s = <<>>
                   ELSE IsTextAfterFirstColon(ys[Len(ys)], hapPair.ydna.s)
          /\ ms = <<>> => hapPair.mtdna = Undef
          /\ ms # <<>> =>
                /\ hapPair.mtdna.t = "string"
                /\ IsTextAfterFirstColon(ms[Len(ms)], hapPair.mtdna.s)

\* The target has a paternal-line value with the female marker after a
\* colon and a maternal-line value with two colons, between entries of
\* another profile.
C22_Witness ==
    /\ xphase = "done"
    /\ \E i, j \in 1..Len(hapData) :
         /\ hapData[i].profile_id = s_target
         /\ hapData[i].name = "yhaplo_2023:haplogroup"
         /\ hapData[i].result.haplogroup_id.s = <<"y", ":">> \o s_FEMALE
         /\ hapData[j].profile_id = s_profile
    /\ hapPair.ydna = Str(<<>>)

----------------------------------------------------------------------------
(* The paginated page of matchviewer.js (SpecPaged): the script of the page  *)
(* has run on the embedded matches, and the user pages, filters, searches    *)
(* and sorts. A match is held by its position in matchesData, which is its   *)
(* originalIndex + 1.                                                        *)

MaxPagedMatches == 51

matchesPerPage == 50

s_all == <<"a", "l", "l">>

s_sep == <<" ", ">", " ">>

\* The characters of the model in the order of their UTF-16 code units.
Chars ==
    <<" ", ">", "A", "B", "C", "D", "E", "F", "G", "H", "I", "J", "K", "L", "M",
      "N", "O", "P", "Q", "R", "S", "T", "U", "V", "W", "X", "Y", "Z",
      "a", "b", "c", "d", "e", "f", "g", "h", "i", "j", "k", "l", "m",
      "n", "o", "p", "q", "r", "s", "t", "u", "v", "w", "x", "y", "z">>

CodeUnit(c) == CHOOSE i \in 1..Len(Chars) : Chars[i] = c

\* String.prototype.toLowerCase
toLowerCase(s) ==
    [i \in 1..Len(s) |->
       IF CodeUnit(s[i]) \in 3..28 THEN Chars[CodeUnit(s[i]) + 26] ELSE s[i]]

\* a < b on two strings: the order of the first code unit that differs, a
\* proper prefix being smaller.
StrLess(a, b) ==
    \E i \in 1..Len(b) :
      /\ \A j \in 1..(i - 1) : j <= Len(a) /\ a[j] = b[j]
      /\ i > Len(a) \/ (i <= Len(a) /\ CodeUnit(a[i]) < CodeUnit(b[i]))

\* String.prototype.split(' > ')
RECURSIVE SplitSep(_)
SplitSep(s) ==
    IF \E i \in 1..(Len(s) - 2) : SubSeq(s, i, i + 2) = s_sep
    THEN LET i == CHOOSE k \in 1..(Len(s) - 2) :
                    /\ SubSeq(s, k, k + 2) = s_sep
                    /\ \A j \in 1..(k - 1) : SubSeq(s, j, j + 2) # s_sep
         IN  <<SubSeq(s, 1, i - 1)>> \o SplitSep(SubSeq(s, i + 3, Len(s)))
    ELSE <<s>>

Region(label, pct, sub) == [label |-> label, totalPercent |-> Str(pct), regions |-> sub]

\* The regions of the matches of the model in the order in which
\* Object.entries and the arrays give them: one region with a sub-region,
\* or one region alone.
PagedRegions(k) ==
    IF k % 4 = 1
    THEN <<Region(<<"E">>, <<"6", "0", ".", "0", "0">>,
                  <<Region(<<"B">>, <<"2", "5", ".", "5", "0">>, <<>>)>>)>>
    ELSE <<Region(<<"E">>, <<"4", "0", ".", "0", "0">>, <<>>)>>

\* The k-th embedded match: every second match is on the latest version, the
\* others are on the old version or carry no ancestry at all.
PagedMatch(k) ==
    [first_name |-> IF k % 2 = 1 THEN <<"A">> ELSE <<"b">>,
     last_name |-> <<"Z">>,
     initials |-> IF k % 2 = 1 THEN <<"A", "Z">> ELSE <<"B", "Z">>,
     sex |-> IF k % 3 = 0 THEN "female" ELSE "male",
     is_maternal_side |-> k % 5 < 2,
     is_paternal_side |-> k % 5 >= 2,
     ibd_proportion |-> k % 3,
     num_segments |-> 1 + (k % 2),
     ancestry |-> IF k % 2 = 1 THEN [t |-> "object", using_latest_compute |-> TRUE,
                                     regions |-> PagedRegions(k)]
                  ELSE IF k % 4 = 2 THEN [t |-> "object", using_latest_compute |-> FALSE,
                                          regions |-> PagedRegions(k)]
                  ELSE Undef]

\* match.ancestry?.using_latest_compute === b
UsingLatestIs(match, b) ==
    match.ancestry.t = "object" /\ match.ancestry.using_latest_compute = b

\* computeMatch of filterMatches, and the filter of the computeFilter handler
ComputeMatch(match, compute) ==
    IF compute = "latest" THEN UsingLatestIs(match, TRUE)
    ELSE IF compute = "old" THEN UsingLatestIs(match, FALSE)
    ELSE TRUE

\* parseFloat(region.totalPercent) >= regionMinPercent
AtLeast(pct, minPercent) ==
    LET x == parseFloat(pct)
    IN  ~x.nan /\ (IF x.neg THEN 0 - x.num ELSE x.num) >= minPercent * x.den

\* regionMatch of filterMatches for a match with regions: the selected path
\* of one, two or three labels is looked up level by level.
RegionMatch(regs, parts, minPercent) ==
    \E a \in 1..Len(regs) :
      \/ /\ Len(parts) = 1
         /\ regs[a].label = parts[1]
         /\ AtLeast(regs[a].totalPercent, minPercent)
      \/ \E b \in 1..Len(regs[a].regions) :
           LET sub == regs[a].regions[b]
           IN  \/ /\ Len(parts) = 2
                  /\ regs[a].label = parts[1]
                  /\ sub.label = parts[2]
                  /\ AtLeast(sub.totalPercent, minPercent)
               \/ \E c \in 1..Len(sub.regions) :
                    /\ Len(parts) = 3
                    /\ regs[a].label = parts[1]
                    /\ sub.label = parts[2]
                    /\ sub.regions[c].label = parts[3]
                    /\ AtLeast(sub.regions[c].totalPercent, minPercent)

\* The predicate of matchesData.filter in filterMatches.
MatchPasses(match, search, compute, gender, side, region, minPercent) ==
    LET searchTerm == toLowerCase(search)
        nameMatch ==
          \/ searchTerm = <<>>
          \/ Includes(toLowerCase(match.first_name \o <<" ">> \o match.last_name),
                      searchTerm)
          \/ Includes(toLowerCase(match.initials), searchTerm)
        genderMatch == gender = "all" \/ match.sex = gender
        sideMatch ==
          IF side = "maternal" THEN match.is_maternal_side
          ELSE IF side = "paternal" THEN match.is_paternal_side
          ELSE TRUE
        regionMatch ==
          IF region # s_all /\ match.ancestry.t = "object"
          THEN RegionMatch(match.ancestry.regions, SplitSep(region), minPercent)
          ELSE region = s_all
    IN  ComputeMatch(match, compute) /\ genderMatch /\ sideMatch /\ regionMatch
        /\ nameMatch

Indices(n) == [k \in 1..n |-> k]

\* filteredMatches = matchesData.filter(...)
Filtered(data, search, compute, gender, side, region, minPercent) ==
    LET Keep(k) == MatchPasses(data[k], search, compute, gender, side, region,
                               minPercent)
    IN  SelectSeq(Indices(Len(data)), Keep)

\* The options buildRegionDropdown adds for the matches of a version filter.
RegionOptions(data, compute) ==
    LET used == { k \in 1..Len(data) :
                    ComputeMatch(data[k], compute) /\ data[k].ancestry.t = "object" }
        Regs(k) == data[k].ancestry.regions
    IN  UNION { UNION { {Regs(k)[a].label}
                        \cup { Regs(k)[a].label \o s_sep \o Regs(k)[a].regions[b].label :
                                 b \in 1..Len(Regs(k)[a].regions) } :
                        a \in 1..Len(Regs(k)) } :
                k \in used }

\* Math.ceil(filteredMatches.length / matchesPerPage)
TotalPages(length) == (length + matchesPerPage - 1) \div matchesPerPage

\* matchesToShow of renderMatches
MatchesToShow(list, page) ==
    LET startIndex == (page - 1) * matchesPerPage
        endIndex == IF startIndex + matchesPerPage < Len(list)
                    THEN startIndex + matchesPerPage ELSE Len(list)
    IN  SubSeq(list, startIndex + 1, endIndex)

\* The page number filterMatches leaves when it does not reset it.
PageAfterFilter_kept(page) == page

\* currentPage = 1 of filterMatches
PageAfterFilter(page) == 1

\* filterMatches() on the values the controls will have.
filterMatches(search, compute, gender, side, region, minPercent) ==
    /\ filteredMatches' = Filtered(matchesData, search, compute, gender, side,
                                   region, minPercent)
    /\ currentPage' = PageAfterFilter(currentPage)
    /\ rendered' = MatchesToShow(filteredMatches', currentPage')

\* The script of the page has run: every match is paged, the first page is
\* rendered and the controls show their defaults, "latest" for the version.
InitPaged ==
    /\ \E n \in {0, 1, MaxPagedMatches} : matchesData = [k \in 1..n |-> PagedMatch(k)]
    /\ filteredMatches = Indices(Len(matchesData))
    /\ currentPage = 1
    /\ rendered = MatchesToShow(filteredMatches, 1)
    /\ searchInput = <<>>
    /\ computeFilter = "latest"
    /\ genderFilter = "all"
    /\ sideFilter = "all"
    /\ regionFilter = s_all
    /\ regionSlider = 0
    /\ currentSort = [column |-> "none", ascending |-> TRUE]

PrevPage ==
    /\ currentPage > 1
    /\ currentPage' = currentPage - 1
    /\ rendered' = MatchesToShow(filteredMatches, currentPage')
    /\ UNCHANGED <<matchesData, filteredMatches, searchInput, computeFilter,
                   genderFilter, sideFilter, regionFilter, regionSlider, currentSort>>

NextPage ==
    /\ currentPage < TotalPages(Len(filteredMatches))
    /\ currentPage' = currentPage + 1
    /\ rendered' = MatchesToShow(filteredMatches, currentPage')
    /\ UNCHANGED <<matchesData, filteredMatches, searchInput, computeFilter,
                   genderFilter, sideFilter, regionFilter, regionSlider, currentSort>>

SearchInput ==
    /\ \E v \in {<<>>, <<"A", " ">>} :
         /\ searchInput' = v
         /\ filterMatches(v, computeFilter, genderFilter, sideFilter, regionFilter,
                          regionSlider)
    /\ UNCHANGED <<matchesData, computeFilter, genderFilter, sideFilter,
                   regionFilter, regionSlider, currentSort>>

\* The change handler of computeFilter: the region dropdown is rebuilt and
\* the region filter goes back to "all" before filterMatches runs.
ChangeComputeFilter ==
    /\ \E v \in {"all", "latest", "old"} :
         /\ computeFilter' = v
         /\ regionFilter' = s_all
         /\ filterMatches(searchInput, v, genderFilter, sideFilter, s_all,
                          regionSlider)
    /\ UNCHANGED <<matchesData, searchInput, genderFilter, sideFilter,
                   regionSlider, currentSort>>

ChangeGenderFilter ==
    /\ \E v \in {"all", "male", "female"} :
         /\ genderFilter' = v
         /\ filterMatches(searchInput, computeFilter, v, sideFilter, regionFilter,
                          regionSlider)
    /\ UNCHANGED <<matchesData, searchInput, computeFilter, sideFilter,
                   regionFilter, regionSlider, currentSort>>

ChangeSideFilter ==
    /\ \E v \in {"all", "maternal", "paternal"} :
         /\ sideFilter' = v
         /\ filterMatches(searchInput, computeFilter, genderFilter, v, regionFilter,
                          regionSlider)
    /\ UNCHANGED <<matchesData, searchInput, computeFilter, genderFilter,
                   regionFilter, regionSlider, currentSort>>

ChangeRegionFilter ==
    /\ \E v \in {s_all} \cup RegionOptions(matchesData, computeFilter) :
         /\ regionFilter' = v
         /\ filterMatches(searchInput, computeFilter, genderFilter, sideFilter, v,
                          regionSlider)
    /\ UNCHANGED <<matchesData, searchInput, computeFilter, genderFilter,
                   sideFilter, regionSlider, currentSort>>

RegionSliderInput ==
    /\ \E v \in {0, 50} :
         /\ regionSlider' = v
         /\ filterMatches(searchInput, computeFilter, genderFilter, sideFilter,
                          regionFilter, v)
    /\ UNCHANGED <<matchesData, searchInput, computeFilter, genderFilter,
                   sideFilter, regionFilter, currentSort>>

\* valA and valB of the comparator of sortMatches
SortValue(match, column) ==
    IF column = "name"
    THEN toLowerCase(match.first_name \o <<" ">> \o match.last_name)
    ELSE IF column = "relationship" THEN match.predicted_relationship_id
    ELSE IF column = "dna" THEN match.ibd_proportion
    ELSE match.num_segments

\* valA < valB
ValueLess(column, a, b) ==
    IF column \in {"name", "relationship"} THEN StrLess(a, b) ELSE a < b

\* Array.prototype.sort with the comparator of sortMatches: stable, so the
\* matches of one value keep their order, the values ascending or descending.
RECURSIVE SortedBy(_, _, _, _, _)
SortedBy(list, data, column, ascending, values) ==
    IF values = {} THEN <<>>
    ELSE LET first == CHOOSE v \in values :
                        \A w \in values \ {v} :
                          IF ascending THEN ValueLess(column, v, w)
                          ELSE ValueLess(column, w, v)
             Has(k) == SortValue(data[k], column) = first
         IN  SelectSeq(list, Has)
             \o SortedBy(list, data, column, ascending, values \ {first})

sortMatches(list, data, column, ascending) ==
    SortedBy(list, data, column, ascending,
             { SortValue(data[list[i]], column) : i \in 1..Len(list) })

\* The click handler of a sortable header.
ClickSortable ==
    /\ \E column \in {"name", "dna", "segments"} :
         LET ascending == IF currentSort.column = column
                          THEN ~currentSort.ascending ELSE TRUE
         IN  /\ currentSort' = [column |-> column, ascending |-> ascending]
             /\ filteredMatches' = sortMatches(filteredMatches, matchesData, column,
                                               ascending)
    /\ rendered' = MatchesToShow(filteredMatches', currentPage)
    /\ UNCHANGED <<matchesData, currentPage, searchInput, computeFilter,
                   genderFilter, sideFilter, regionFilter, regionSlider>>

NextPaged ==
    \/ PrevPage /\ UNCHANGED <<varsFlatten, varsHier, varsStats, varsBatch, varsHaplo, varsTable>>
    \/ NextPage /\ UNCHANGED <<varsFlatten, varsHier, varsStats, varsBatch, varsHaplo, varsTable>>
    \/ SearchInput /\ UNCHANGED <<varsFlatten, varsHier, varsStats, varsBatch, varsHaplo, varsTable>>
    \/ ChangeComputeFilter /\ UNCHANGED <<varsFlatten, varsHier, varsStats, varsBatch, varsHaplo, varsTable>>
    \/ ChangeGenderFilter /\ UNCHANGED <<varsFlatten, varsHier, varsStats, varsBatch, varsHaplo, varsTable>>
    \/ ChangeSideFilter /\ UNCHANGED <<varsFlatten, varsHier, varsStats, varsBatch, varsHaplo, varsTable>>
    \/ ChangeRegionFilter /\ UNCHANGED <<varsFlatten, varsHier, varsStats, varsBatch, varsHaplo, varsTable>>
    \/ RegionSliderInput /\ UNCHANGED <<varsFlatten, varsHier, varsStats, varsBatch, varsHaplo, varsTable>>
    \/ ClickSortable /\ UNCHANGED <<varsFlatten, varsHier, varsStats, varsBatch, varsHaplo, varsTable>>

StartPaged ==
    InitPaged /\ IdleFlatten /\ IdleHier /\ IdleStats /\ IdleBatch /\ IdleHaplo /\ IdleTable

SpecPaged == StartPaged /\ [][NextPaged]_vars

\* C23: the page number lies between 1 and the number of pages of the
\* filtered matches (1 when there are none), the rendered page holds at most
\* matchesPerPage matches, and every step that changes the value of a filter
\* or search control leaves the page number at 1.
C23_PageWithinBounds ==
    /\ [](/\ currentPage >= 1
          /\ currentPage = 1 \/ (currentPage - 1) * 50 < Len(filteredMatches)
          /\ Len(rendered) <= 50)
    /\ [][(<<searchInput, computeFilter, genderFilter, sideFilter, regionFilter,
             regionSlider>>' #
           <<searchInput, computeFilter, genderFilter, sideFilter, regionFilter,
             regionSlider>>) => currentPage' = 1]_vars

\* The second, partly filled page is shown while a filter other than the
\* default is selected, so paging and filtering have both acted.
C23_Witness ==
    /\ currentPage = 2
    /\ rendered # <<>>
    /\ Len(rendered) < 50
    /\ computeFilter = "all"
    /\ currentSort.column # "none"

\* C26: filteredMatches holds each embedded match that passes the selected
\* values of the search, version, gender, side and region controls once, and
\* no other match.
C26_FilteredMatchesCurrent ==
    /\ \A i, j \in 1..Len(filteredMatches) :
         filteredMatches[i] = filteredMatches[j] => i = j
    /\ { filteredMatches[i] : i \in 1..Len(filteredMatches) } =
         { k \in 1..Len(matchesData) :
             MatchPasses(matchesData[k], searchInput, computeFilter, genderFilter,
                         sideFilter, regionFilter, regionSlider) }

----------------------------------------------------------------------------
(* The table of the page of htmlGenerator.js (SpecTable): renderMatches has  *)
(* run on the embedded matches, and the user searches, filters by version,   *)
(* sorts by a column and expands rows. tbody holds the rows in document      *)
(* order; a match row carries dataset.index + 1 as index, a detail row the   *)
(* position in matchesData of the match it was generated for.                *)

MaxTableMatches == 2

TableMatch(first, rel, dna, segments, ancestry) ==
    [first_name |-> first, last_name |-> <<"Z">>, initials |-> first \o <<"Z">>,
     predicted_relationship_id |-> rel, ibd_proportion |-> dna,
     num_segments |-> segments, ancestry |-> ancestry]

\* The embedded matches of the model: on the latest version, on the old
\* version and without ancestry, in different orders by name, relationship,
\* shared DNA and segments.
TableMatchPool ==
    { TableMatch(<<"B">>, <<"c">>, 2, 1,
                 [t |-> "object", using_latest_compute |-> TRUE]),
      TableMatch(<<"a">>, <<"d">>, 1, 1,
                 [t |-> "object", using_latest_compute |-> FALSE]),
      TableMatch(<<"c">>, <<"c">>, 3, 2, Undef) }

MatchRow(k) == [cls |-> "match-row", index |-> k, display |-> "", expanded |-> FALSE]

DetailRow(k) == [cls |-> "detail-row", of |-> k, display |-> "", show |-> FALSE]

\* renderMatches: for each match its row and its detail row are appended.
renderMatches(data) ==
    [p \in 1..(2 * Len(data)) |->
       IF p % 2 = 1 THEN MatchRow((p + 1) \div 2) ELSE DetailRow(p \div 2)]

IsMatchRow(r) == r.cls = "match-row"

IsDetailRow(r) == r.cls = "detail-row"

\* The index forEach passes for the row at position p of the document:
\* its place among the match rows.
ForEachIndex(body, p) ==
    Cardinality({ q \in 1..p : IsMatchRow(body[q]) })

\* matchesData[index] of filterMatches: index is the forEach index.
FilterIndex(body, p) == ForEachIndex(body, p)

\* nameMatch && computeMatch of filterMatches
TablePasses(match, search, compute) ==
    LET searchTerm == toLowerCase(search)
    IN  /\ \/ Includes(toLowerCase(match.first_name \o <<" ">> \o match.last_name),
                       searchTerm)
           \/ Includes(toLowerCase(match.initials), searchTerm)
           \/ Includes(toLowerCase(match.predicted_relationship_id), searchTerm)
        /\ ComputeMatch(match, compute)

\* filterMatches of htmlGenerator.js: each match row, and the row after it,
\* is shown or hidden by the match at the forEach index.
tableFilterMatches(body, data, search, compute) ==
    LET Shown(p) == TablePasses(data[FilterIndex(body, p)], search, compute)
    IN  [p \in 1..Len(body) |->
           IF IsMatchRow(body[p])
           THEN IF Shown(p) THEN [body[p] EXCEPT !.display = ""]
                ELSE [body[p] EXCEPT !.display = "none", !.expanded = FALSE]
           ELSE IF p > 1 /\ IsMatchRow(body[p - 1])
           THEN IF Shown(p - 1)
                THEN [body[p] EXCEPT !.display =
                        IF body[p - 1].expanded THEN "table-row" ELSE "none"]
                ELSE [body[p] EXCEPT !.display = "none"]
           ELSE body[p]]

\* detailRows[index] of sortMatches: detailRows is in document order.
DetailFor(detailRows, index) == detailRows[index]

\* sortMatches of htmlGenerator.js: the match rows are sorted and re-appended,
\* each followed by detailRows[index].
tableSortMatches(body, data, column, ascending) ==
    LET rows == SelectSeq(body, IsMatchRow)
        detailRows == SelectSeq(body, IsDetailRow)
        order == sortMatches([i \in 1..Len(rows) |-> i],
                             [i \in 1..Len(rows) |-> data[rows[i].index]],
                             column, ascending)
    IN  [p \in 1..(2 * Len(rows)) |->
           IF p % 2 = 1 THEN rows[order[(p + 1) \div 2]]
           ELSE DetailFor(detailRows, rows[order[p \div 2]].index)]

InitTable ==
    /\ \E n \in 0..MaxTableMatches : tableData \in [1..n -> TableMatchPool]
    /\ tbody = renderMatches(tableData)
    /\ tableSearch = <<>>
    /\ tableCompute = "all"
    /\ tableSort = [column |-> "none", ascending |-> TRUE]

TableSearchInput ==
    /\ \E v \in {<<>>, <<"A">>, <<"c">>} :
         /\ tableSearch' = v
         /\ tbody' = tableFilterMatches(tbody, tableData, v, tableCompute)
    /\ UNCHANGED <<tableData, tableCompute, tableSort>>

TableChangeComputeFilter ==
    /\ \E v \in {"all", "latest", "old"} :
         /\ tableCompute' = v
         /\ tbody' = tableFilterMatches(tbody, tableData, tableSearch, v)
    /\ UNCHANGED <<tableData, tableSearch, tableSort>>

TableClickSortable ==
    /\ \E column \in {"name", "relationship", "dna", "segments"} :
         LET ascending == IF tableSort.column = column
                          THEN ~tableSort.ascending ELSE TRUE
         IN  /\ tableSort' = [column |-> column, ascending |-> ascending]
             /\ tbody' = tableSortMatches(tbody, tableData, column, ascending)
    /\ UNCHANGED <<tableData, tableSearch, tableCompute>>

\* The click handler of a match row that is displayed: every expanded row is
\* closed with the row after it, and the row is opened unless it was open.
TableClickRow ==
    /\ \E p \in 1..Len(tbody) :
         /\ IsMatchRow(tbody[p])
         /\ tbody[p].display = ""
         /\ tbody' =
              [q \in 1..Len(tbody) |->
                 IF IsMatchRow(tbody[q])
                 THEN [tbody[q] EXCEPT !.expanded = q = p /\ ~tbody[p].expanded]
                 ELSE IF q > 1 /\ IsMatchRow(tbody[q - 1])
                         /\ (tbody[q - 1].expanded \/ q - 1 = p)
                 THEN [tbody[q] EXCEPT !.show = q - 1 = p /\ ~tbody[p].expanded]
                 ELSE tbody[q]]
    /\ UNCHANGED <<tableData, tableSearch, tableCompute, tableSort>>

NextTable ==
    \/ TableSearchInput /\ UNCHANGED <<varsFlatten, varsHier, varsStats, varsBatch, varsHaplo, varsPaged>>
    \/ TableChangeComputeFilter /\ UNCHANGED <<varsFlatten, varsHier, varsStats, varsBatch, varsHaplo, varsPaged>>
    \/ TableClickSortable /\ UNCHANGED <<varsFlatten, varsHier, varsStats, varsBatch, varsHaplo, varsPaged>>
    \/ TableClickRow /\ UNCHANGED <<varsFlatten, varsHier, varsStats, varsBatch, varsHaplo, varsPaged>>

StartTable ==
    InitTable /\ IdleFlatten /\ IdleHier /\ IdleStats /\ IdleBatch /\ IdleHaplo /\ IdlePaged

SpecTable == StartTable /\ [][NextTable]_vars

\* C24: a match row is displayed exactly if the match of its dataset.index,
\* whose data it shows, passes the search term and the version filter.
C24_VisibleIffPasses ==
    \A p \in 1..Len(tbody) :
      IsMatchRow(tbody[p]) =>
        (tbody[p].display = ""
           <=> TablePasses(tableData[tbody[p].index], tableSearch, tableCompute))

\* C25: every match row is followed by the detail row generated for its
\* match, and the detail row of each match is in the table once.
C25_DetailFollowsRow ==
    /\ \A p \in 1..Len(tbody) :
         IsMatchRow(tbody[p]) =>
           /\ p < Len(tbody)
           /\ IsDetailRow(tbody[p + 1])
           /\ tbody[p + 1].of = tbody[p].index
    /\ \A k \in 1..Len(tableData) :
         Cardinality({ p \in 1..Len(tbody) :
                         IsDetailRow(tbody[p]) /\ tbody[p].of = k }) = 1

\* C27: while an invocation of the click handler is inside its loop,
\* saveButton.disabled is true, so that the save handler cannot export a list
\* that a running batch is still filling.
C27_SaveDisabledWhileRunning ==
    \A h \in 1..MaxClicks : Running(h) => saveDisabled

----------------------------------------------------------------------------
(* calculateMatchStatistics on long lists (SpecCrowd): besides the matches   *)
(* of SpecStats the function is given lists of some two thousand matches     *)
(* with Y-DNA, of which one or two carry a haplogroup of their own.          *)

MaxCrowd == 2001

CrowdWidth == 60

\* A match with the given Y-DNA haplogroup and nothing else.
CrowdMatch(ydna) ==
    EnrichedMatch(<<"1">>, Ancestry(TRUE, Haplogroups(Str(ydna), Undef), RegionsNone),
                  Undef)

\* A list of matches with Y-DNA is passed in: the first one or two with I1,
\* all the others with R1b.
SupplyCrowd ==
    /\ sphase = "input"
    /\ matches = <<>>
    /\ \E n \in (MaxCrowd - CrowdWidth)..MaxCrowd, rare \in 1..2 :
         matches' = [i \in 1..n |->
                       IF i <= rare THEN CrowdMatch(<<"I", "1">>) ELSE CrowdMatch(s_R1b)]
    /\ UNCHANGED <<stats, sphase>>

NextCrowd ==
    \/ SupplyMatch /\ UNCHANGED <<varsFlatten, varsHier, varsBatch, varsPages>>
    \/ SupplyCrowd /\ UNCHANGED <<varsFlatten, varsHier, varsBatch, varsPages>>
    \/ CallCalculateMatchStatistics /\ UNCHANGED <<varsFlatten, varsHier, varsBatch, varsPages>>

SpecCrowd == StartStats /\ [][NextCrowd]_vars

\* The sum of the counts of a tally.
RECURSIVE SumCounts(_)
SumCounts(tally) ==
    IF tally = <<>> THEN 0 ELSE tally[1].v + SumCounts(Tail(tally))

\* C28 as stated: the counts of the Y-DNA tally add up to matchesWithYDNA, a
\* list with an entry has a denominator of at least 1, and every listed
\* percentage is greater than 0 and at most 100, so that "0.0" is not listed.
C28_ListedPercentagePositive ==
    sphase = "done" =>
      /\ SumCounts(stats.haplogroups.ydna) = stats.matchesWithYDNA
      /\ stats.mostCommonYDNA # <<>> => stats.matchesWithYDNA >= 1
      /\ \A k \in 1..Len(stats.mostCommonYDNA) :
           LET p == parseFloatStr(stats.mostCommonYDNA[k].percentage)
           IN  /\ ~p.nan /\ ~p.neg
               /\ p.num > 0
               /\ p.num <= 100 * p.den
               /\ stats.mostCommonYDNA[k].percentage # <<"0", ".", "0">>

\* C28, amended: the counts of the Y-DNA tally add up to matchesWithYDNA, a
\* list with an entry has a denominator of at least 1, and every listed
\* haplogroup has a count between 1 and matchesWithYDNA, so that its share is
\* greater than 0 and at most 100 and the percentage is computed, not the
\* fallback; the listed percentage is the share rounded to one decimal: at
\* most 100, and 0.0 for a haplogroup carried by fewer than one in 2000 of
\* the matches with Y-DNA, and for no haplogroup carried by more.
C28_TallySumsToDenominator ==
    sphase = "done" =>
      /\ SumCounts(stats.haplogroups.ydna) = stats.matchesWithYDNA
      /\ stats.mostCommonYDNA # <<>> => stats.matchesWithYDNA >= 1
      /\ \A k \in 1..Len(stats.mostCommonYDNA) :
           LET e == stats.mostCommonYDNA[k]
               p == parseFloatStr(e.percentage)
               d == stats.matchesWithYDNA
           IN  /\ e.count >= 1
               /\ e.count <= d
               /\ ~p.nan /\ ~p.neg
               /\ p.num <= 100 * p.den
               /\ 2000 * e.count < d => p.num = 0
               /\ p.num = 0 => 2000 * e.count <= d

\* Of 2001 matches with Y-DNA one carries I1: I1 is listed with count 1 and
\* the percentage "0.0".
C28_Witness ==
    /\ sphase = "done"
    /\ stats.matchesWithYDNA = 2001
    /\ \E k \in 1..Len(stats.mostCommonYDNA) :
         /\ stats.mostCommonYDNA[k].count = 1
         /\ stats.mostCommonYDNA[k].percentage = <<"0", ".", "0">>

----------------------------------------------------------------------------
(* calculateMatchStatistics on matches whose regions buildHierarchy built    *)
(* (SpecBuilt): each match is supplied with the hierarchy of a sequence of   *)
(* flat entries, as extractAncestryDataForMatch builds it.                   *)

MaxBuilt == 2

\* The flat entries of the matches: a top-level a, and b at top level or
\* under a, with two percentages. (No entry is its own parent.)
BuiltEntryPool ==
    { Entry(<<"a">>, <<"X">>, <<"4", "0", ".", "0", "0">>, s_root),
      Entry(<<"b">>, <<"X">>, <<"6", "0", ".", "0", "0">>, s_root),
      Entry(<<"b">>, <<"X">>, <<"4", "0", ".", "0", "0">>, <<"a">>),
      Entry(<<"b">>, <<"X">>, <<"6", "0", ".", "0", "0">>, <<"a">>) }

BuiltEntrySeqs == UNION { [1..n -> BuiltEntryPool] : n \in 0..MaxEntries }

\* One more match is passed in, its regions built from flat entries.
SupplyBuiltMatch ==
    /\ sphase = "input"
    /\ Len(matches) < MaxBuilt
    /\ \E es \in BuiltEntrySeqs :
         matches' = Append(matches,
                           EnrichedMatch(<<"1">>, Ancestry(TRUE, Null, buildHierarchy(es)),
                                         Undef))
    /\ UNCHANGED <<stats, sphase>>

NextBuilt ==
    \/ SupplyBuiltMatch /\ UNCHANGED <<varsFlatten, varsHier, varsBatch, varsPages>>
    \/ CallCalculateMatchStatistics /\ UNCHANGED <<varsFlatten, varsHier, varsBatch, varsPages>>

SpecBuilt == StartStats /\ [][NextBuilt]_vars

\* C29: no accumulator of regionData holds more values than there are
\* matches, and the average of its node is at most the largest of its values.
C29_OneValuePerMatch ==
    sphase = "done" =>
      \A k \in 1..Len(stats.regionData) :
        LET values == stats.regionData[k].v.values
            p == parseFloatStr(Average(values, Len(matches)))
        IN  /\ Len(values) <= Len(matches)
            /\ \E i \in 1..Len(values) :
                 p.num * values[i].den <= values[i].num * p.den

\* C30: when the haplogroup request of a match throws or answers non-2xx,
\* or an entry of its response makes the extraction throw, the record pushed
\* for the match carries the ancestry with the regions built from its tree
\* and the using_latest_compute flag of the tree, no ancestry_error, and
\* haplogroups null.
C30_HaplogroupFailureContained ==
    [][ \A h \in 1..MaxClicks :
          Pushed(h) /\ LastLogged(h).outcome \in TreeOutcomes \ {"tree"} =>
            /\ LastPushed.ancestry.t = "object"
            /\ LastPushed.ancestry.regions = handlers[h].regions
            /\ LastPushed.ancestry.using_latest_compute = handlers[h].latest
            /\ LastPushed.ancestry_error = Undef
            /\ LastPushed.ancestry.haplogroups = Null ]_vars

====
